---- MODULE Spec2Model ----
(***************************************************************************)
(* Model of the itinerary template application                              *)
(* (src/itinerarytemplate/src/App.tsx and src/itinerarytemplate/src/       *)
(* config.ts): the document mapper, the load effect with its access check, *)
(* the readiness gate and the bounded page navigation.                     *)
(*                                                                         *)
(* JavaScript values are tagged records: the tag t is the JavaScript type, *)
(* v the payload.  An object is a function from its own keys to values, an *)
(* array a sequence of values, a string a TLA+ string.                     *)
(***************************************************************************)
EXTENDS Integers, Sequences, FiniteSets, TLC

VARIABLES
    currentPage,  \* useState(0)                       App.tsx:106
    data,         \* useState<any>(null)               App.tsx:107
    loading,      \* useState(true)                    App.tsx:108
    error,        \* useState<string | null>(null)     App.tsx:109
    isHydrated,   \* useState(false)                   App.tsx:110
    pc,           \* position of the mount: which effects have run
    request,      \* what the load effect read: URL parameters, referrer, env
    fetchState,   \* the promise chain of App.tsx:178-186
    requests,     \* the URLs handed to fetch(), in order
    timers,       \* number of pending setTimeout(..., 100) callbacks
    payload,      \* the body the response carried, once it has been read
    nexts,        \* handleNext calls since the itinerary was installed
    prevs,        \* handlePrevious calls since the itinerary was installed
    title,        \* document.title                    App.tsx:216
    prefetched,   \* the src values of the latest run of the prefetch effect
    burst,        \* calls of the latest step when it was a burst: +k next, -k previous
    pendingEffects, \* effects of the last commit that have not run yet
    crashed,      \* a render or an effect threw and React unmounted the tree
    raw,          \* the document handed to mapDocumentToTemplate (SpecMap)
    mapped,       \* what mapDocumentToTemplate returned for it (SpecMap)
    extracted     \* what the load made of raw as a body, bare and enveloped (SpecMap)

vars == <<currentPage, data, loading, error, isHydrated, pc, request,
          fetchState, requests, timers, payload, nexts, prevs, title,
          prefetched, burst, pendingEffects, crashed, raw, mapped, extracted>>

appVars == <<currentPage, data, loading, error, isHydrated, pc, request,
             fetchState, requests, timers, payload, nexts, prevs, title,
             prefetched, burst, pendingEffects, crashed>>

(***************************************************************************)
(* Bounds of the model.                                                    *)
(***************************************************************************)
MaxDays == 3
MaxCalls == 6
MaxVaried == 2
MaxBurst == 3

(***************************************************************************)
(* JavaScript values.                                                      *)
(***************************************************************************)
Undefined == [t |-> "undefined"]
Null == [t |-> "null"]
Str(s) == [t |-> "string", v |-> s]
Num(n) == [t |-> "number", v |-> n]
Bool(b) == [t |-> "boolean", v |-> b]
Arr(q) == [t |-> "array", v |-> q]
Obj(f) == [t |-> "object", v |-> f]
\* the numbers Infinity and -Infinity (JSON.parse of an overflowing literal
\* such as 1e999 or -1e999): a number, marked as not finite, with its sign
\* in v
Infinity == [t |-> "number", v |-> 1, inf |-> TRUE]

MinusInfinity == [t |-> "number", v |-> 0 - 1, inf |-> TRUE]
\* the outcome of an evaluation that threw: e is String(e) of the exception
Thrown(e) == [t |-> "throw", v |-> e]

EmptyObj == Obj(<<>>)

IsNullish(x) == x.t \in {"undefined", "null"}

\* a ?? b
Coalesce(x, d) == IF IsNullish(x) THEN d ELSE x

\* ToBoolean(x)
Truthy(x) ==
    CASE x.t = "undefined" -> FALSE
      [] x.t = "null" -> FALSE
      [] x.t = "boolean" -> x.v
      [] x.t = "number" -> x.v # 0
      [] x.t = "string" -> x.v # ""
      [] OTHER -> TRUE

\* o.k for a value o that is neither null nor undefined: an own key of an
\* object, the length of an array or of a string, undefined otherwise
Get(o, k) ==
    CASE o.t = "object" -> IF k \in DOMAIN o.v THEN o.v[k] ELSE Undefined
      [] o.t \in {"array", "string"} /\ k = "length" -> Num(Len(o.v))
      [] OTHER -> Undefined

\* o?.k
OptGet(o, k) == IF IsNullish(o) THEN Undefined ELSE Get(o, k)

\* String(e) of the error a read of x.key throws on a null or undefined x
cannotRead(x, key) ==
    "TypeError: Cannot read properties of " \o x.t \o " (reading '" \o key \o "')"

\* String(e) of the error a call of callee throws when it is no function;
\* callee is the source text of the expression called
notAFunction(callee) == "TypeError: " \o callee \o " is not a function"

(***************************************************************************)
(* mapDocumentToTemplate, App.tsx:118-144.                                 *)
(***************************************************************************)
placeholderImg == "https://images.unsplash.com/photo-1500530855697-b586d89ba3ee?q=80&w=1200&auto=format&fit=crop"

\* one activity, App.tsx:131-138; a.time throws on a null or undefined a
mapActivity(a) ==
    IF IsNullish(a) THEN Thrown(cannotRead(a, "time"))
    ELSE Obj([time |-> Coalesce(Get(a, "time"), Str("")),
              title |-> Coalesce(Get(a, "title"), Str("")),
              location |-> Coalesce(Get(a, "location"), Str("")),
              description |-> Coalesce(Get(a, "description"), Str("")),
              image |-> Coalesce(Get(a, "image"), Str(placeholderImg)),
              distance_to_next |-> Coalesce(Get(a, "distance_to_next"), Null)])

\* the receiver of (x ?? []).map(...): x.map is a function only when
\* x ?? [] is an array, and calling anything else throws; callee is the
\* source text of the expression called
asArray(x, callee) ==
    LET arr == Coalesce(x, Arr(<<>>)) IN
    IF arr.t # "array" THEN Thrown(notAFunction(callee)) ELSE arr

\* the result of .map(f): the call throws what f throws on the first
\* element it throws on
collect(out) ==
    LET thrown == {i \in 1..Len(out) : out[i].t = "throw"} IN
    IF thrown # {} THEN out[CHOOSE i \in thrown : \A j \in thrown : i <= j] ELSE Arr(out)

\* (day.activities ?? []).map(...), App.tsx:131-138
mapActivities(x) ==
    LET arr == asArray(x, "(day.activities ?? []).map") IN
    IF arr.t = "throw" THEN arr
    ELSE collect([i \in 1..Len(arr.v) |-> mapActivity(arr.v[i])])

\* a day mapper that lets the numbering of the source win
mapDayKeepsNumber(day, idx) ==
    IF IsNullish(day) THEN Thrown(cannotRead(day, "date"))
    ELSE LET acts == mapActivities(Get(day, "activities")) IN
         IF acts.t = "throw" THEN acts
         ELSE Obj([dayNumber |-> Coalesce(Get(day, "dayNumber"), Num(idx + 1)),
                   date |-> Coalesce(Get(day, "date"), Str("")),
                   activities |-> acts])

\* one day, App.tsx:128-139; idx is the 0-based index map() passes
mapDay(day, idx) ==
    IF IsNullish(day) THEN Thrown(cannotRead(day, "date"))
    ELSE LET acts == mapActivities(Get(day, "activities")) IN
         IF acts.t = "throw" THEN acts
         ELSE Obj([dayNumber |-> Num(idx + 1),
                   date |-> Coalesce(Get(day, "date"), Str("")),
                   activities |-> acts])

\* (doc.days ?? []).map(...), App.tsx:128-139
mapDays(x) ==
    LET arr == asArray(x, "(doc.days ?? []).map") IN
    IF arr.t = "throw" THEN arr
    ELSE collect([i \in 1..Len(arr.v) |-> mapDay(arr.v[i], i - 1)])

mapDocumentToTemplate(doc) ==
    IF IsNullish(doc) THEN Thrown(cannotRead(doc, "trip_name"))
    ELSE LET days == mapDays(Get(doc, "days")) IN
         IF days.t = "throw" THEN days
         ELSE Obj([tripName |-> Coalesce(Get(doc, "trip_name"), Str("Trip")),
                   traveler |-> Coalesce(Get(doc, "traveler_name"), Str("Traveler")),
                   destination |-> Coalesce(Get(doc, "destination"), Str("Destination")),
                   city |-> Coalesce(Get(doc, "city"), Null),
                   duration |-> Coalesce(Get(doc, "duration"), Str("Trip")),
                   dates |-> Coalesce(Get(doc, "dates"), Str("")),
                   coverImage |-> Coalesce(Get(doc, "cover_image"), Str(placeholderImg)),
                   days |-> days,
                   notes |-> Coalesce(Get(doc, "notes"), Arr(<<>>)),
                   tripType |-> Coalesce(Get(doc, "trip_type"), Null),
                   group |-> Coalesce(Get(doc, "group"), Null)])

(***************************************************************************)
(* Raw documents: the inputs of the mapper.  Every top-level field is      *)
(* absent, null, of the wrong type, falsy of the right type, or valid.     *)
(***************************************************************************)
Fields == {"trip_name", "traveler_name", "destination", "city", "duration",
           "dates", "cover_image", "notes", "trip_type", "group"}

Kinds == {"absent", "null", "wrong", "falsy", "valid"}

aParticipant == Obj([first_name |-> Str("Ada"), last_name |-> Str("Lovelace")])

aGroup == Obj([participants |-> Arr(<<aParticipant>>), collect_preferences |-> Bool(TRUE)])

ValidOf(f) ==
    CASE f = "trip_name" -> Str("Rome Getaway")
      [] f = "traveler_name" -> Str("Ada")
      [] f = "destination" -> Str("Paris, France")
      [] f = "city" -> Str("Rome")
      [] f = "duration" -> Str("Long Weekend")
      [] f = "dates" -> Str("May 1-3, 2025")
      [] f = "cover_image" -> Str("https://img.example/cover.jpg")
      [] f = "notes" -> Arr(<<Str("Bring ID")>>)
      [] f = "trip_type" -> Str("group")
      [] f = "group" -> aGroup

FalsyOf(f) ==
    CASE f = "notes" -> Arr(<<>>)
      [] f = "group" -> EmptyObj
      [] OTHER -> Str("")

WrongOf(f) ==
    CASE f = "notes" -> Str("Bring ID")
      [] f = "trip_type" -> Num(0)
      [] f = "group" -> Str("everyone")
      [] OTHER -> Num(42)

ValueOf(f, kind) ==
    CASE kind = "null" -> Null
      [] kind = "wrong" -> WrongOf(f)
      [] kind = "falsy" -> FalsyOf(f)
      [] kind = "valid" -> ValidOf(f)

anActivity == Obj([time |-> Str("9:00 AM"), title |-> Str("Louvre"),
                   location |-> Str("Rue de Rivoli"), description |-> Str("Museum visit"),
                   image |-> Str("https://img.example/louvre.jpg"),
                   distance_to_next |-> Num(3)])

bareActivity == Obj([title |-> Str("Walk")])

\* an activity that carries d as its distance to the next one
activityAt(d) == Obj([title |-> Str("Stop"), distance_to_next |-> d])

\* the values a source distance takes besides absent and a positive number
OddDistances == <<Null, Str("far"), Infinity, Num(0)>>

\* a day whose activities carry those distances, one each
oddDay ==
    Obj([date |-> Str("Saturday, May 2"),
         activities |-> Arr([i \in 1..Len(OddDistances) |-> activityAt(OddDistances[i])])])

\* the values an entry of days takes: valid days (with and without a
\* numbering field of their own), days with absent, null and mistyped
\* activities, and entries that are no objects at all
DayVals ==
    {EmptyObj,
     Obj([dayNumber |-> Num(7), date |-> Str("Friday, May 1"),
          activities |-> Arr(<<anActivity, bareActivity>>)]),
     Obj([date |-> Null, activities |-> Null]),
     Obj([activities |-> Str("later")]),
     Obj([activities |-> Arr(<<anActivity, Null>>)]),
     oddDay,
     Str("Monday"),
     Null}

SeqsUpTo(S, n) == UNION {[1..m -> S] : m \in 0..n}

\* the document a kind per field describes; days rides along as given
DocOf(kinds, days) ==
    LET present == {f \in Fields : kinds[f] # "absent"}
        top == [f \in present |-> ValueOf(f, kinds[f])]
    IN  IF days.t = "undefined" THEN Obj(top) ELSE Obj(top @@ [days |-> days])

\* documents in which at most MaxVaried fields leave the base kind
FieldDocs(base, days) ==
    UNION {{DocOf([f \in Fields |-> IF f \in S THEN g[f] ELSE base], days) :
                g \in [S -> Kinds \ {base}]} :
           S \in {T \in SUBSET Fields : Cardinality(T) <= MaxVaried}}

\* documents that differ in days alone: absent, null, mistyped, and every
\* list of at most MaxDays entries
DaysDocs ==
    {DocOf([f \in Fields |-> "absent"], d) :
        d \in {Undefined, Null, Str("soon"), Num(3), EmptyObj}
              \cup {Arr(q) : q \in SeqsUpTo(DayVals, MaxDays)}}

\* JSON bodies that are no objects, null among them
ScalarDocs == {Num(7), Str("itinerary"), Bool(FALSE), Arr(<<>>), Null}

\* documents with a field named document of their own: null, an object and
\* a string
DocumentKeyDocs ==
    {Obj([document |-> Null, city |-> Str("Rome")]),
     Obj([document |-> Obj([city |-> Str("Rome")]), destination |-> Str("Paris, France")]),
     Obj([document |-> Str("passport"), destination |-> Str("Paris, France")])}

RawDocs ==
    FieldDocs("absent", Undefined)
        \cup FieldDocs("valid", Arr(<<Obj([date |-> Str("Friday, May 1")])>>))
        \cup DaysDocs \cup ScalarDocs \cup DocumentKeyDocs

NotCalled == [t |-> "pending"]

NotExtracted == [bare |-> NotCalled, wrapped |-> NotCalled]

(***************************************************************************)
(* The mapper on its own: a document is drawn, the mapper is applied.      *)
(***************************************************************************)
MapDocument ==
    /\ mapped = NotCalled
    /\ mapped' = mapDocumentToTemplate(raw)
    /\ UNCHANGED <<raw, extracted, appVars>>

(***************************************************************************)
(* The built-in demo itinerary, App.tsx:10-103.                            *)
(***************************************************************************)
defaultItineraryData ==
    Obj([
      tripName |-> Str("Vegas Weekend"),
      traveler |-> Str("Sheriff"),
      destination |-> Str("Las Vegas"),
      duration |-> Str("Three Day Weekend"),
      dates |-> Str("March 15-17, 2025"),
      coverImage |-> Str("https://images.unsplash.com/photo-1683645012230-e3a3c1255434?crop=entropy&cs=tinysrgb&fit=max&fm=jpg&ixid=M3w3Nzg4Nzd8MHwxfHNlYXJjaHwxfHxsYXMlMjB2ZWdhcyUyMHN0cmlwJTIwc2t5bGluZSUyMG5pZ2h0fGVufDF8fHx8MTc1ODQ0MTc5M3ww&ixlib=rb-4.1.0&q=80&w=1080&utm_source=figma&utm_medium=referral"),
      tripType |-> Null,
      group |-> Null,
      days |-> Arr(<<
        Obj([
          dayNumber |-> Num(1),
          date |-> Str("Friday, March 15"),
          activities |-> Arr(<<
            Obj([
              time |-> Str("12:00 PM"),
              title |-> Str("Arrival & Check-in"),
              location |-> Str("Bellagio Hotel & Casino"),
              description |-> Str("Check into the luxurious Bellagio suite and get settled. Take in the famous fountain views from your room."),
              image |-> Str("https://images.unsplash.com/photo-1683645012230-e3a3c1255434?crop=entropy&cs=tinysrgb&fit=max&fm=jpg&ixid=M3w3Nzg4Nzd8MHwxfHNlYXJjaHwxfHxsYXMlMjB2ZWdhcyUyMHN0cmlwJTIwc2t5bGluZSUyMG5pZ2h0fGVufDF8fHx8MTc1ODQ0MTc5M3ww&ixlib=rb-4.1.0&q=80&w=1080&utm_source=figma&utm_medium=referral")]),
            Obj([
              time |-> Str("2:30 PM"),
              title |-> Str("Late Lunch at Le Cirque"),
              location |-> Str("Bellagio Hotel"),
              description |-> Str("Exquisite French cuisine with Strip views. Try the signature tasting menu and celebrate your arrival in style."),
              image |-> Str("https://images.unsplash.com/photo-1750943041213-db8328856b48?crop=entropy&cs=tinysrgb&fit=max&fm=jpg&ixid=M3w3Nzg4Nzd8MHwxfHNlYXJjaHwxfHxmaW5lJTIwZGluaW5nJTIwcmVzdGF1cmFudCUyMGVsZWdhbnR8ZW58MXx8fHwxNzU4Mzc1NTk5fDA&ixlib=rb-4.1.0&q=80&w=1080&utm_source=figma&utm_medium=referral")]),
            Obj([
              time |-> Str("6:00 PM"),
              title |-> Str("Casino Gaming Experience"),
              location |-> Str("Bellagio Casino Floor"),
              description |-> Str("Try your luck at the high-limit slots and blackjack tables. Set a budget and enjoy the thrill of Vegas gaming."),
              image |-> Str("https://images.unsplash.com/photo-1582603518944-5b55c828487e?crop=entropy&cs=tinysrgb&fit=max&fm=jpg&ixid=M3w3Nzg4Nzd8MHwxfHNlYXJjaHwxfHxjYXNpbm8lMjBzbG90JTIwbWFjaGluZXMlMjB2ZWdhc3xlbnwxfHx8fDE3NTg0NDE3OTN8MA&ixlib=rb-4.1.0&q=80&w=1080&utm_source=figma&utm_medium=referral")]),
            Obj([
              time |-> Str("9:00 PM"),
              title |-> Str("Cirque du Soleil Show"),
              location |-> Str("MGM Grand Theater"),
              description |-> Str("Be amazed by the world-renowned 'O' show featuring incredible acrobatics, artistry, and surrealism in an aquatic stage."),
              image |-> Str("https://images.unsplash.com/photo-1635885648209-b30a48f4304e?crop=entropy&cs=tinysrgb&fit=max&fm=jpg&ixid=M3w3Nzg4Nzd8MHwxfHNlYXJjaHwxfHx2ZWdhcyUyMHNob3clMjBlbnRlcnRhaW5tZW50fGVufDF8fHx8MTc1ODQ0MTc5NHww&ixlib=rb-4.1.0&q=80&w=1080&utm_source=figma&utm_medium=referral")])>>)]),
        Obj([
          dayNumber |-> Num(2),
          date |-> Str("Saturday, March 16"),
          activities |-> Arr(<<
            Obj([
              time |-> Str("10:00 AM"),
              title |-> Str("Brunch at Bacchanal Buffet"),
              location |-> Str("Caesars Palace"),
              description |-> Str("Legendary Las Vegas buffet experience with over 500 dishes from around the world. Come hungry!"),
              image |-> Str("https://images.unsplash.com/photo-1755862922067-8a0135afc1bb?crop=entropy&cs=tinysrgb&fit=max&fm=jpg&ixid=M3w3Nzg4Nzd8MHwxfHNlYXJjaHwxfHxidWZmZXQlMjBicnVuY2glMjBmb29kJTIwc3ByZWFkfGVufDF8fHx8MTc1ODQ0MTc5N3ww&ixlib=rb-4.1.0&q=80&w=1080&utm_source=figma&utm_medium=referral")]),
            Obj([
              time |-> Str("1:00 PM"),
              title |-> Str("Shopping at The Forum Shops"),
              location |-> Str("Caesars Palace"),
              description |-> Str("Luxury shopping experience with over 160 stores. Browse designer brands and unique Vegas souvenirs in this Roman-themed mall."),
              image |-> Str("https://images.unsplash.com/photo-1572533177115-5bea803c0f49?crop=entropy&cs=tinysrgb&fit=max&fm=jpg&ixid=M3w3Nzg4Nzd8MHwxfHNlYXJjaHwxfHxzaG9wcGluZyUyMG1hbGwlMjBsdXh1cnklMjBicmFuZHN8ZW58MXx8fHwxNzU4NDQxNzk0fDA&ixlib=rb-4.1.0&q=80&w=1080&utm_source=figma&utm_medium=referral")]),
            Obj([
              time |-> Str("4:00 PM"),
              title |-> Str("Pool Party at Flamingo Go Pool"),
              location |-> Str("Flamingo Las Vegas"),
              description |-> Str("Relax and party poolside with DJ music, tropical cocktails, and Vegas energy. Perfect for afternoon sun and socializing."),
              image |-> Str("https://images.unsplash.com/photo-1695177823880-c7691f7f99f1?crop=entropy&cs=tinysrgb&fit=max&fm=jpg&ixid=M3w3Nzg4Nzd8MHwxfHNlYXJjaHwxfHxwb29sJTIwcGFydHklMjB2ZWdhcyUyMGRheXxlbnwxfHx8fDE3NTg0NDE3OTd8MA&ixlib=rb-4.1.0&q=80&w=1080&utm_source=figma&utm_medium=referral")])>>)]),
        Obj([
          dayNumber |-> Num(3),
          date |-> Str("Sunday, March 17"),
          activities |-> Arr(<<
            Obj([
              time |-> Str("11:00 AM"),
              title |-> Str("Helicopter Tour of Las Vegas"),
              location |-> Str("McCarran Airport Helicopter Tours"),
              description |-> Str("Spectacular 30-minute helicopter flight over the Strip, downtown Vegas, and Red Rock Canyon. Unforgettable aerial views and photo opportunities."),
              image |-> Str("https://images.unsplash.com/photo-1597067707867-e0cde9736709?crop=entropy&cs=tinysrgb&fit=max&fm=jpg&ixid=M3w3Nzg4Nzd8MHwxfHNlYXJjaHwxfHxoZWxpY29wdGVyJTIwdmlldyUyMGNpdHklMjBsaWdodHN8ZW58MXx8fHwxNzU4NDQxNzk4fDA&ixlib=rb-4.1.0&q=80&w=1080&utm_source=figma&utm_medium=referral")])>>)])>>),
      notes |-> Arr(<<
        Str("Bring ID - required everywhere in Vegas"),
        Str("Set gambling budget beforehand"),
        Str("Stay hydrated - desert climate"),
        Str("Download hotel app for room access"),
        Str("Keep emergency cash on hand"),
        Str("Check show start times day-of")>>)])

(***************************************************************************)
(* Configuration and the inputs the load effect reads.                     *)
(***************************************************************************)
\* a || b
Or(x, d) == IF Truthy(x) THEN x ELSE d

\* s.includes(sub) on strings
Includes(s, sub) ==
    \E i \in 1..(Len(s) - Len(sub) + 1) : SubSeq(s, i, i + Len(sub) - 1) = sub

\* config.ts:3
API_BASE(env) == Or(env.VITE_API_BASE_URL, Str("/api")).v

\* config.ts:5-7, endpoints.itinerary
itineraryUrl(env, id) == API_BASE(env) \o "/itineraries/" \o id

\* App.tsx:153
allowedDomain(env) == Or(env.VITE_ALLOWED_REFERER, Str("traverse-hq.com"))

\* a build that falls back to a secret of its own when none is configured
expectedTokenDefaulted(env) == IF Truthy(env.VITE_TEMPLATE_SECRET) THEN env.VITE_TEMPLATE_SECRET ELSE Str("changeme")

\* App.tsx:154
expectedToken(env) == Or(env.VITE_TEMPLATE_SECRET, Str(""))

\* App.tsx:157, referer && referer.includes(allowedDomain), as a boolean
hasValidReferer(r) ==
    Truthy(Str(r.referer)) /\ Includes(r.referer, allowedDomain(r.env).v)

\* App.tsx:158
hasValidToken(r) ==
    IF Truthy(expectedToken(r.env)) THEN r.token = expectedToken(r.env) ELSE TRUE

\* the check with "or" for "and": a valid referrer AND a valid token needed
accessDeniedEither(r) ==
    Truthy(expectedToken(r.env)) /\ (~hasValidReferer(r) \/ ~hasValidToken(r))

\* App.tsx:160, the condition of the early return
accessDenied(r) ==
    Truthy(expectedToken(r.env)) /\ ~hasValidReferer(r) /\ ~hasValidToken(r)

UnauthorizedMessage == "Unauthorized: This itinerary can only be accessed through the Traverse app."

Envs ==
    [VITE_API_BASE_URL : {Undefined},
     VITE_ALLOWED_REFERER : {Undefined, Str("partner.example")},
     VITE_TEMPLATE_SECRET : {Undefined, Str(""), Str("abc")}]

Referers == {"", "https://traverse-hq.com/trips", "https://partner.example/",
             "https://evil.example/?from=traverse-hq.com"}

Requests ==
    [itineraryId : {Null, Str(""), Str("it1")},
     token : {Null, Str("abc"), Str("abcd")},
     referer : Referers,
     env : Envs]

(***************************************************************************)
(* Strings.  A string of the model holds the characters of ASCII from      *)
(* U+0009 to U+007E, the grave accent excepted.  Where the code works on   *)
(* the UTF-16 code units of a string, whatever they are (trim), the model  *)
(* works on a sequence of numbers.                                         *)
(***************************************************************************)
\* The string helpers bind their argument to a name of its value (text \in {s}),
\* so that a nested call is evaluated once.

\* the characters U+0020 to U+005F, and U+0061 to U+007E, in their order
AsciiFrom32 == " !\"#$%&'()*+,-./0123456789:;<=>?@ABCDEFGHIJKLMNOPQRSTUVWXYZ[\\]^_"

AsciiFrom97 == "abcdefghijklmnopqrstuvwxyz{|}~"

\* the code units of the characters a string of the model holds
CharCodes == (9..13) \cup (32..95) \cup (97..126)

\* String.fromCharCode(n)
fromCharCode(n) ==
    CASE n = 9 -> "\t"
      [] n = 10 -> "\n"
      [] n = 11 -> ""
      [] n = 12 -> "\f"
      [] n = 13 -> "\r"
      [] n \in 32..95 -> SubSeq(AsciiFrom32, n - 31, n - 31)
      [] n \in 97..126 -> SubSeq(AsciiFrom97, n - 96, n - 96)

\* the code unit of every character a string of the model holds
charCodeOf ==
    [c \in {fromCharCode(n) : n \in CharCodes} |->
        CHOOSE n \in CharCodes : fromCharCode(n) = c]

\* c.charCodeAt(0) for a string c of one character
charCode(c) == charCodeOf[c]

\* the code units of s, in order
codeUnits(s) ==
    CHOOSE out \in
        {[i \in 1..Len(text) |-> charCode(SubSeq(text, i, i))] : text \in {s}} : TRUE

\* the string of the code units u
textOf(u) ==
    CHOOSE out \in
        {LET part[lo \in 1..Len(units) + 1, hi \in 0..Len(units)] ==
                 IF lo > hi THEN ""
                 ELSE IF lo = hi THEN fromCharCode(units[lo])
                 ELSE part[lo, (lo + hi) \div 2] \o part[(lo + hi) \div 2 + 1, hi]
         IN  part[1, Len(units)]
            : units \in {u}} : TRUE

\* the code units String.prototype.trim removes, the WhiteSpace and the
\* LineTerminator of ECMAScript: U+0009 to U+000D, U+0020, U+00A0, U+1680,
\* U+2000 to U+200A, U+2028, U+2029, U+202F, U+205F, U+3000 and U+FEFF
Whitespace ==
    (9..13) \cup {32, 160, 5760} \cup (8192..8202) \cup {8232, 8233, 8239, 8287, 12288, 65279}

\* the ASCII whitespace of the DOM: space, tab, line feed, carriage return
\* and form feed
AsciiWhitespace == {" ", "\t", "\n", "\r", "\f"}

\* u.trim(), for the code units u of a string
trim(u) ==
    CHOOSE out \in
        {LET solid == {i \in 1..Len(units) : units[i] \notin Whitespace} IN
         IF solid = {} THEN <<>>
         ELSE SubSeq(units, CHOOSE i \in solid : \A j \in solid : i <= j,
                            CHOOSE i \in solid : \A j \in solid : i >= j)
            : units \in {u}} : TRUE

\* s.trim() for a string of the model
trimmed(s) == textOf(trim(codeUnits(s)))

\* s without the characters of blanks at its two ends
stripOf(s, blanks) ==
    CHOOSE out \in
        {LET solid == {i \in 1..Len(text) : SubSeq(text, i, i) \notin blanks} IN
         IF solid = {} THEN ""
         ELSE SubSeq(text, CHOOSE i \in solid : \A j \in solid : i <= j,
                           CHOOSE i \in solid : \A j \in solid : i >= j)
            : text \in {s}} : TRUE

\* s with every run of ASCII whitespace replaced by one space
collapse(s) ==
    CHOOSE out \in
        {LET kept(i) ==
                 IF SubSeq(text, i, i) \notin AsciiWhitespace THEN SubSeq(text, i, i)
                 ELSE IF i > 1 /\ SubSeq(text, i - 1, i - 1) \in AsciiWhitespace THEN ""
                 ELSE " "
             part[lo \in 1..Len(text) + 1, hi \in 0..Len(text)] ==
                 IF lo > hi THEN ""
                 ELSE IF lo = hi THEN kept(lo)
                 ELSE part[lo, (lo + hi) \div 2] \o part[(lo + hi) \div 2 + 1, hi]
         IN  part[1, Len(text)]
            : text \in {s}} : TRUE

\* what reading document.title gives after s was assigned to it: the DOM
\* strips and collapses the ASCII whitespace of the title
titleRead(s) == stripOf(collapse(s), {" "})

\* s.split(",")[0]
firstSegment(s) ==
    CHOOSE out \in
        {LET commas == {i \in 1..Len(text) : SubSeq(text, i, i) = ","} IN
         IF commas = {} THEN text
         ELSE SubSeq(text, 1, (CHOOSE i \in commas : \A j \in commas : i <= j) - 1)
            : text \in {s}} : TRUE

\* q[1] , q[2] , ... : the strings of q with a comma between them
joined(q) ==
    LET out[i \in 0..Len(q)] ==
            IF i = 0 THEN ""
            ELSE IF i = 1 THEN q[1]
            ELSE out[i - 1] \o "," \o q[i]
    IN  out[Len(q)]

\* the conversion of x to a string, or to a number, throws: toString of an
\* object parsed from JSON is never a function, so an object with a key
\* toString of its own has nothing to convert it (Object.prototype.valueOf
\* returns the object itself), and so has an array that holds one at any
\* depth, its toString joining the strings of its entries
RECURSIVE toPrimitiveThrows(_)
toPrimitiveThrows(x) ==
    CASE x.t = "object" -> "toString" \in DOMAIN x.v
      [] x.t = "array" -> \E i \in 1..Len(x.v) : toPrimitiveThrows(x.v[i])
      [] OTHER -> FALSE

\* String(e) of what the failed conversion throws, and of what it throws
\* when the value assigned to document.title is itself the object that
\* cannot be converted: the assignment puts words of its own before the
\* message
cannotConvert == "TypeError: Cannot convert object to primitive value"

cannotSetTitle ==
    "TypeError: Failed to set the 'title' property on 'Document': "
        \o "Cannot convert object to primitive value"

\* String(x) for an x that is no array, in the assignment to
\* document.title: the string, or what the conversion threw
scalarString(x) ==
    CASE x.t = "string" -> x
      [] x.t = "number" /\ "inf" \in DOMAIN x ->
            Str(IF x.v < 0 THEN "-Infinity" ELSE "Infinity")
      [] x.t = "number" -> Str(ToString(x.v))
      [] x.t = "boolean" -> Str(IF x.v THEN "true" ELSE "false")
      [] x.t = "null" -> Str("null")
      [] x.t = "undefined" -> Str("undefined")
      [] OTHER -> IF toPrimitiveThrows(x) THEN Thrown(cannotSetTitle)
                  ELSE Str("[object Object]")

RECURSIVE stringOf(_)

\* the string an entry x of an array gives to join: nothing for null and
\* undefined, String(x) for the others, an array among them.  An object
\* that cannot be converted is converted by Array.prototype.join, not by
\* the assignment, and what is thrown has the words of the conversion alone
entryString(x) ==
    IF IsNullish(x) THEN Str("")
    ELSE IF x.t = "object" /\ toPrimitiveThrows(x) THEN Thrown(cannotConvert)
    ELSE stringOf(x)

\* String(x) in the assignment to document.title: Array.prototype.toString
\* joins the strings of the entries, and throws what the first entry that
\* cannot be converted throws
stringOf(x) ==
    IF x.t # "array" THEN scalarString(x)
    ELSE LET parts == [i \in 1..Len(x.v) |-> entryString(x.v[i])]
             thrown == {i \in 1..Len(x.v) : parts[i].t = "throw"}
         IN  IF thrown # {} THEN parts[CHOOSE i \in thrown : \A j \in thrown : i <= j]
             ELSE Str(joined([i \in 1..Len(x.v) |-> parts[i].v]))

(***************************************************************************)
(* Numbers.  The comparison x > 0 converts an x that is no number.         *)
(***************************************************************************)
Digits == {"0", "1", "2", "3", "4", "5", "6", "7", "8", "9"}

HexDigits ==
    Digits \cup {"a", "b", "c", "d", "e", "f", "A", "B", "C", "D", "E", "F"}

digitOf(c) == CHOOSE d \in 0..9 : SubSeq("0123456789", d + 1, d + 1) = c

\* the first n characters of s, and s from its n-th character on
upTo(s, n) == IF n < 1 THEN "" ELSE IF n > Len(s) THEN s ELSE SubSeq(s, 1, n)

from(s, n) == IF n > Len(s) THEN "" ELSE SubSeq(s, n, Len(s))

\* s has characters, all of them in set
allOf(s, set) == Len(s) > 0 /\ \A i \in 1..Len(s) : SubSeq(s, i, i) \in set

\* the indices of the characters of s that are in set
indicesOf(s, set) == {i \in 1..Len(s) : SubSeq(s, i, i) \in set}

\* the least number of set, none when it is empty
leastOf(set, none) == IF set = {} THEN none ELSE CHOOSE i \in set : \A j \in set : i <= j

\* s without its first character c, s itself when it has none
without(s, c) ==
    LET at == leastOf(indicesOf(s, {c}), 0) IN
    IF at = 0 THEN s ELSE upTo(s, at - 1) \o from(s, at + 1)

\* the number the decimal digits of s write when it is below 10^9, and
\* 10^9 for every number from there on.  A string of V8 holds fewer than
\* 2^29 characters, so an exponent of 10^9 or more decides on its own
\* whether the number is 0, whatever the mantissa before it
naturalOf(s) ==
    LET t == from(s, leastOf(indicesOf(s, Digits \ {"0"}), Len(s) + 1))
        run[i \in 0..Len(t)] ==
            IF i = 0 THEN 0 ELSE run[i - 1] * 10 + digitOf(SubSeq(t, i, i))
    IN  IF Len(t) > 9 THEN 1000000000 ELSE run[Len(t)]

\* the 752 digits of 2^-1075 = 5^1075 / 10^1075, half of the least positive
\* number 2^-1074: the number is 2.47032822920623272088...e-324.  A literal
\* is rounded to the nearest number, and to 0 from halfway between 0 and
\* 2^-1074, so what is not above 2^-1075 is 0
halfOfLeast ==
    "2470328229206232720882843964341106861825299013071623822127928412"
        \o "5033775363510437593264991818081799618989828234772285886546332835"
        \o "5177969898199387398005390939063150356595155702263922908583924491"
        \o "0518443593180284993653615250031937045767824921936562366986365848"
        \o "0757001585769269903706311928279558551332927834338409351978015531"
        \o "2465972635795746227664652728272200563740064854999770965994704540"
        \o "2082816622623785739345073633900796776193057750674017632467360096"
        \o "8951340535537458516661134223766678604162159680461914467291840300"
        \o "5300575308490487653917113865916462395249126236538818796362393732"
        \o "8042389101867234849766823508986338858792562830275599565752445550"
        \o "7255189313690836254779186948667994968324049705821028513185451396"
        \o "213837722826145437693412532098591327667236328125"

\* the digits s, read as d.ddd, write more than those of halfOfLeast do:
\* at the first place where the two differ s has the larger digit, a place
\* past the end of either counting as 0
aboveHalfOfLeast(s) ==
    LET places == IF Len(s) > Len(halfOfLeast) THEN Len(s) ELSE Len(halfOfLeast)
        digit(i) == IF i <= Len(s) THEN digitOf(SubSeq(s, i, i)) ELSE 0
        half(i) == IF i <= Len(halfOfLeast) THEN digitOf(SubSeq(halfOfLeast, i, i)) ELSE 0
        differ == {i \in 1..places : digit(i) # half(i)}
    IN  /\ differ # {}
        /\ LET i == CHOOSE k \in differ : \A j \in differ : k <= j IN digit(i) > half(i)

\* a literal without its sign
unsigned(t) == IF upTo(t, 1) \in {"+", "-"} THEN from(t, 2) ELSE t

\* the number the exponent part writes: digits, with a sign or none
exponentOf(power) ==
    IF upTo(power, 1) = "-" THEN 0 - naturalOf(unsigned(power)) ELSE naturalOf(unsigned(power))

\* the power of ten of the first digit that is not 0, for its index in the
\* mantissa, the index of the point and the exponent
magnitudeOf(first, point, exponent) ==
    IF first < point THEN point - 1 - first + exponent ELSE exponent - (first - point)

\* the number d.ddd times ten to the magnitude does not round to 0
notRounded(digits, magnitude) ==
    magnitude > 0 - 324 \/ (magnitude = 0 - 324 /\ aboveHalfOfLeast(digits))

\* the mantissa, whose first digit that is not 0 is at first and whose
\* point is at point, writes with the exponent a number above 0
positiveDigits(mantissa, first, point, exponent) ==
    notRounded(without(from(mantissa, first), "."), magnitudeOf(first, point, exponent))

\* a decimal literal without its sign is a number above 0: digits with a
\* point or none, and after the mark e or E the digits of the exponent
positiveDecimal(mantissa, marked, power) ==
    /\ allOf(mantissa, Digits \cup {"."})
    /\ Cardinality(indicesOf(mantissa, {"."})) <= 1
    /\ mantissa # "."
    /\ marked => allOf(unsigned(power), Digits)
    /\ ~allOf(mantissa, {"0", "."})
    /\ positiveDigits(mantissa, leastOf(indicesOf(mantissa, Digits \ {"0"}), 0),
                      leastOf(indicesOf(mantissa, {"."}), Len(mantissa) + 1),
                      exponentOf(power))

\* the literal body, with its mark at the index mark when it has one
positiveMarked(body, mark) ==
    positiveDecimal(upTo(body, mark - 1), mark <= Len(body), from(body, mark + 1))

\* Number(t) > 0 for a string t without whitespace at its ends, by the
\* StringNumericLiteral of ECMAScript: Infinity with a sign or none, a
\* binary, octal or hexadecimal integer without a sign, or a decimal
\* literal with a sign, a fraction and an exponent or without; the empty
\* string is 0 and whatever else is NaN
positiveLiteral(t) ==
    CASE unsigned(t) = "Infinity" -> upTo(t, 1) # "-"
      [] upTo(t, 2) \in {"0x", "0X"} ->
            allOf(from(t, 3), HexDigits) /\ ~allOf(from(t, 3), {"0"})
      [] upTo(t, 2) \in {"0o", "0O"} ->
            allOf(from(t, 3), {"0", "1", "2", "3", "4", "5", "6", "7"})
                /\ ~allOf(from(t, 3), {"0"})
      [] upTo(t, 2) \in {"0b", "0B"} ->
            allOf(from(t, 3), {"0", "1"}) /\ ~allOf(from(t, 3), {"0"})
      [] OTHER ->
            /\ upTo(t, 1) # "-"
            /\ positiveMarked(unsigned(t),
                              leastOf(indicesOf(unsigned(t), {"e", "E"}), Len(unsigned(t)) + 1))

\* Number(s) > 0 for a string s
positiveString(s) ==
    CHOOSE out \in {positiveLiteral(text) : text \in {trimmed(s)}} : TRUE

(***************************************************************************)
(* Derived values of a render, App.tsx:197-228.                            *)
(***************************************************************************)
\* x > 0, or what the comparison threw: a boolean counts for 1 or 0, null
\* for 0, a string for the number it writes, an array for the number its
\* string writes; undefined and an object are NaN, which nothing is below;
\* an object or an array that cannot be converted throws
GreaterThanZero(x) ==
    IF toPrimitiveThrows(x) THEN Thrown(cannotConvert)
    ELSE Bool(CASE x.t = "number" -> x.v > 0
                [] x.t = "boolean" -> x.v
                [] x.t = "string" -> positiveString(x.v)
                [] x.t = "array" -> positiveString(stringOf(x).v)
                [] OTHER -> FALSE)

\* the gate without its third input
showLoadingNoData == loading \/ ~isHydrated

\* App.tsx:198
showLoading == loading \/ ~isHydrated \/ ~Truthy(data)

\* App.tsx:223
hasParticipantsOf(d) ==
    LET participants == OptGet(OptGet(d, "group"), "participants") IN
    Truthy(participants) /\ GreaterThanZero(Get(participants, "length")) = Bool(TRUE)

hasParticipants == hasParticipantsOf(data)

\* App.tsx:223 throws: the length of the participants cannot be compared
hasParticipantsThrows(d) ==
    LET participants == OptGet(OptGet(d, "group"), "participants") IN
    Truthy(participants) /\ GreaterThanZero(Get(participants, "length")).t = "throw"

\* App.tsx:224-228
totalPagesOf(d) ==
    IF ~Truthy(d) THEN 0
    ELSE 1 + (IF hasParticipantsOf(d) THEN 1 ELSE 0) + Get(Get(d, "days"), "length").v + 1

totalPages == totalPagesOf(data)

\* App.tsx:363, 364 and 369: what the returned tree contains
overlayRendered == ~crashed /\ showLoading

errorRendered == ~crashed /\ Truthy(error)

pagesRendered == ~crashed /\ ~showLoading /\ ~Truthy(error)

\* LoadingScreen.tsx:43-55: the overlay is fixed to the four edges of the
\* viewport with an opaque background and this zIndex
overlayZIndex == 9999

\* App.tsx:365: the error box is fixed to the viewport under the class z-50
errorZIndex == 50

\* the error message is painted where the user sees it: rendered, and not
\* under an overlay stacked above it
errorVisible == errorRendered /\ (overlayRendered => errorZIndex > overlayZIndex)

\* App.tsx:222
isGroupTripOf(d) == OptGet(d, "tripType") = Str("group")

\* the element App.tsx:315-325 returns
coverElement(d) ==
    [kind |-> "CoverPage", key |-> "cover",
     props |-> [tripName |-> Get(d, "tripName"), travelerName |-> Get(d, "traveler"),
                destination |-> Get(d, "destination"), duration |-> Get(d, "duration"),
                dates |-> Get(d, "dates"), coverImage |-> Get(d, "coverImage"),
                isGroupTrip |-> Bool(isGroupTripOf(d)),
                participantCount |->
                    Coalesce(OptGet(OptGet(Get(d, "group"), "participants"), "length"), Num(0))]]

\* the element App.tsx:331-337 returns
participantsElement(d) ==
    [kind |-> "ParticipantsPage", key |-> "participants",
     props |-> [participants |-> Get(Get(d, "group"), "participants"),
                collectPreferences |->
                    Coalesce(Get(Get(d, "group"), "collect_preferences"), Bool(FALSE))]]

\* the element App.tsx:347-354 returns for the day at the 0-based dayIndex
dayElement(d, dayIndex) ==
    LET day == Get(d, "days").v[dayIndex + 1] IN
    [kind |-> "DayPage", key |-> "day-" \o ToString(dayIndex),
     props |-> [dayNumber |-> Get(day, "dayNumber"), date |-> Get(day, "date"),
                activities |-> Get(day, "activities")]]

\* the element App.tsx:358 returns
notesElement(d) == [kind |-> "NotesPage", key |-> "notes", props |-> [notes |-> Get(d, "notes")]]

\* nothing is rendered, App.tsx:310
NoElement == [kind |-> "null", key |-> "", props |-> <<>>]

\* a renderer whose day range ends one page early
renderPageShort(d, page) ==
    IF ~Truthy(d) THEN NoElement
    ELSE IF page = 0 THEN coverElement(d)
    ELSE IF hasParticipantsOf(d) /\ page = 1 THEN participantsElement(d)
    ELSE LET daysStartPage == IF hasParticipantsOf(d) THEN 2 ELSE 1
             daysCount == Get(Get(d, "days"), "length").v
             daysEndPage == daysStartPage + daysCount - 1
         IN  IF page >= daysStartPage /\ page < daysEndPage
             THEN dayElement(d, page - daysStartPage)
             ELSE notesElement(d)

\* App.tsx:309-359, renderCurrentPage for the itinerary d and the index page
renderPageOf(d, page) ==
    IF ~Truthy(d) THEN NoElement
    ELSE IF page = 0 THEN coverElement(d)
    ELSE IF hasParticipantsOf(d) /\ page = 1 THEN participantsElement(d)
    ELSE LET daysStartPage == IF hasParticipantsOf(d) THEN 2 ELSE 1
             daysCount == Get(Get(d, "days"), "length").v
             daysEndPage == daysStartPage + daysCount - 1
         IN  IF page >= daysStartPage /\ page <= daysEndPage
             THEN dayElement(d, page - daysStartPage)
             ELSE notesElement(d)

renderCurrentPage == renderPageOf(data, currentPage)

\* CoverPage.tsx:20-21: the src of the one image of a cover page
coverImages(element) == <<element.props.coverImage>>

\* DayPage.tsx:34-42: the src of the image of each activity, in order
dayImages(element) ==
    [i \in 1..Len(element.props.activities.v) |-> Get(element.props.activities.v[i], "image")]

\* an indicator after every activity that carries a distance, the last too
distanceShownAfterLast(activities, index) ==
    LET d == Get(activities.v[index + 1], "distance_to_next") IN
    d # Undefined /\ d # Null

\* DayPage.tsx:76 and 162: whether the distance indicator follows the
\* activity at the 0-based index
distanceShown(activities, index) ==
    LET d == Get(activities.v[index + 1], "distance_to_next") IN
    d # Undefined /\ d # Null /\ index < Len(activities.v) - 1

\* DayPage.tsx:34 and 125: the indicator of each activity of a day page
indicatorsOf(element) ==
    [i \in 1..Len(element.props.activities.v) |->
        distanceShown(element.props.activities, i - 1)]

\* the src of every image the element renders; ParticipantsPage.tsx and
\* NotesPage.tsx render none
imagesShown(element) ==
    CASE element.kind = "CoverPage" -> coverImages(element)
      [] element.kind = "DayPage" -> dayImages(element)
      [] OTHER -> <<>>

(***************************************************************************)
(* The title effect, App.tsx:201-220.                                      *)
(***************************************************************************)
\* document.title before the effect has written it: the title of the
\* hosting page
HostTitle == "(title of the hosting page)"

\* what document.title reads after x was assigned to it, or what the
\* assignment threw
titleString(x) ==
    LET text == stringOf(x) IN
    IF text.t = "throw" THEN text ELSE Str(titleRead(text.v))

\* App.tsx:206-219: the value assigned to document.title for the itinerary
\* d, or what the effect threw; split is no function of a truthy
\* destination that is no string, and the assignment converts the city to
\* a string
titleOf(d) ==
    LET city == Get(d, "city")
        destination == Get(d, "destination")
        parse == ~Truthy(city) /\ Truthy(destination)
        segment == trimmed(firstSegment(destination.v))
        cityName == IF ~parse THEN city
                    ELSE IF segment = "" THEN Null ELSE Str(segment)
    IN  IF parse /\ destination.t # "string"
        THEN Thrown(notAFunction("data.destination.split"))
        ELSE IF Truthy(cityName) THEN titleString(cityName)
        ELSE Str("My Itinerary")

\* App.tsx:201-220: document.title after the effect has run for the
\* itinerary d, t being the title before
TitleEffect(d, t) ==
    IF Truthy(d) /\ titleOf(d).t # "throw" THEN titleOf(d).v ELSE t

\* the effect throws
TitleEffectThrows(d) == Truthy(d) /\ titleOf(d).t = "throw"

(***************************************************************************)
(* The prefetch effect, App.tsx:231-289.                                   *)
(***************************************************************************)
\* the truthy images of the activities of the day at dayIndex, in order,
\* App.tsx:253-255 and 277-279
activityImages(d, dayIndex) ==
    LET day == IF dayIndex + 1 \in 1..Len(Get(d, "days").v)
               THEN Get(d, "days").v[dayIndex + 1] ELSE Undefined
        acts == IF IsNullish(day) THEN <<>> ELSE Get(day, "activities").v
    IN  SelectSeq([i \in 1..Len(acts) |-> Get(acts[i], "image")], Truthy)

\* App.tsx:240-257 and 264-281: the images pushed for the adjacent page
adjacentImages(d, page) ==
    IF page = 0 THEN <<Get(d, "coverImage")>>
    ELSE IF hasParticipantsOf(d) /\ page = 1 THEN <<>>
    ELSE LET daysStartPage == IF hasParticipantsOf(d) THEN 2 ELSE 1 IN
         IF page >= daysStartPage /\ page < daysStartPage + Get(Get(d, "days"), "length").v
         THEN activityImages(d, page - daysStartPage)
         ELSE <<>>

\* App.tsx:234-282, imagesToPreload for the itinerary d shown at page
imagesToPreloadOf(d, page) ==
    (IF page < totalPagesOf(d) - 1 THEN adjacentImages(d, page + 1) ELSE <<>>)
        \o (IF page > 0 THEN adjacentImages(d, page - 1) ELSE <<>>)

\* App.tsx:285-288: the values the forEach assigns to the src of an image.
\* The assignment converts its value to a string, and throws on one that
\* cannot be converted: the values before that one were assigned, the
\* others never are
assignedSrc(images) ==
    LET bad == {i \in 1..Len(images) : toPrimitiveThrows(images[i])} IN
    IF bad = {} THEN images
    ELSE SubSeq(images, 1, (CHOOSE i \in bad : \A j \in bad : i <= j) - 1)

\* App.tsx:287: one of the assignments of the forEach throws
srcThrows(images) == \E i \in 1..Len(images) : toPrimitiveThrows(images[i])

\* App.tsx:231-289: the src values requested by a run of the effect for
\* the render with these values, old being those of its run before
PrefetchEffect(d, page, ld, hyd, old) ==
    IF ld \/ ~hyd \/ ~Truthy(d) THEN old ELSE assignedSrc(imagesToPreloadOf(d, page))

\* the effect throws, App.tsx:287
PrefetchEffectThrows(d, page, ld, hyd) ==
    ~(ld \/ ~hyd \/ ~Truthy(d)) /\ srcThrows(imagesToPreloadOf(d, page))

(***************************************************************************)
(* Renders and commits.  Every step that changes the state of App makes    *)
(* React render again.  Before it renders, React runs the effects the      *)
(* commit before left pending, with the values of that commit; after the   *)
(* commit the effects whose dependencies changed are pending, and run in a *)
(* later step of their own unless the next render comes first.  A page     *)
(* component that throws while it renders, or an effect that throws, makes *)
(* React unmount the tree: App.tsx has no error boundary.                  *)
(* An effect that throws does not keep React from running the other        *)
(* effects of the same commit.                                             *)
(***************************************************************************)
\* React renders x as a child: the text of a string or of a number, nothing
\* for a boolean, null or undefined, each entry of an array in its turn; an
\* object is no child, and rendering one throws
RECURSIVE validChild(_)
validChild(x) ==
    CASE x.t = "object" -> FALSE
      [] x.t = "array" -> \A i \in 1..Len(x.v) : validChild(x.v[i])
      [] OTHER -> TRUE

\* x?.charAt(0) throws, ParticipantsPage.tsx:32-33: charAt is a function of
\* strings only, and ?. lets only null and undefined pass
charAtThrows(x) == ~IsNullish(x) /\ x.t # "string"

\* the page component throws while it renders.  CoverPage.tsx:41-47 renders
\* tripName, destination and dates as children.  ParticipantsPage.tsx:31-33
\* calls map on the participants and reads the names of each entry, and
\* calls charAt on them.  DayPage.tsx:27-29 and 34-81 renders dayNumber and
\* date, calls map on the activities, and renders the time, title, location
\* and description of each, and its distance where the indicator is shown.
\* NotesPage.tsx:20-23 calls map on the notes and renders each
renderThrows(element) ==
    CASE element.kind = "CoverPage" ->
            \E k \in {"tripName", "destination", "dates"} : ~validChild(element.props[k])
      [] element.kind = "ParticipantsPage" ->
            \/ element.props.participants.t # "array"
            \/ \E i \in 1..Len(element.props.participants.v) :
                   LET participant == element.props.participants.v[i] IN
                   \/ IsNullish(participant)
                   \/ charAtThrows(Get(participant, "first_name"))
                   \/ charAtThrows(Get(participant, "last_name"))
      [] element.kind = "DayPage" ->
            \/ ~validChild(element.props.dayNumber)
            \/ ~validChild(element.props.date)
            \/ element.props.activities.t # "array"
            \/ \E i \in 1..Len(element.props.activities.v) :
                   LET activity == element.props.activities.v[i] IN
                   \/ IsNullish(activity)
                   \/ \E k \in {"time", "title", "location", "description"} :
                          ~validChild(Get(activity, k))
                   \/ /\ distanceShown(element.props.activities, i - 1)
                      /\ ~validChild(Get(activity, "distance_to_next"))
      [] element.kind = "NotesPage" ->
            \/ element.props.notes.t # "array"
            \/ \E i \in 1..Len(element.props.notes.v) : ~validChild(element.props.notes.v[i])
      [] OTHER -> FALSE

\* the step changes the state of App, so React renders again
Rerender ==
    <<currentPage', data', loading', error', isHydrated'>>
        # <<currentPage, data, loading, error, isHydrated>>

\* App.tsx:223: the new render of App throws where it compares the length
\* of the participants
AppThrows == Truthy(data') /\ hasParticipantsThrows(data')

\* App.tsx:369-371: the new render mounts a page, and the page throws
PageThrows ==
    /\ ~(loading' \/ ~isHydrated' \/ ~Truthy(data')) /\ ~Truthy(error')
    /\ renderThrows(renderPageOf(data', currentPage'))

\* the effects whose dependencies (App.tsx:220 and 289) the step changed
EffectsDue ==
    (IF data' # data THEN {"title"} ELSE {})
        \cup (IF <<currentPage', totalPagesOf(data'), data', loading', isHydrated',
                   hasParticipantsOf(data')>>
                  # <<currentPage, totalPages, data, loading, isHydrated, hasParticipants>>
              THEN {"prefetch"} ELSE {})

\* the effects that are pending run, with the values of the last commit
RunPending ==
    /\ title' = IF "title" \in pendingEffects THEN TitleEffect(data, title) ELSE title
    /\ prefetched' = IF "prefetch" \in pendingEffects
                     THEN PrefetchEffect(data, currentPage, loading, isHydrated, prefetched)
                     ELSE prefetched

\* one of the pending effects throws; React runs the others all the same
PendingThrows ==
    \/ "title" \in pendingEffects /\ TitleEffectThrows(data)
    \/ "prefetch" \in pendingEffects
          /\ PrefetchEffectThrows(data, currentPage, loading, isHydrated)

\* what follows the state change of a step
Commit ==
    /\ ~crashed
    /\ IF Rerender
       THEN /\ RunPending
            /\ \E unmounted \in {PendingThrows \/ AppThrows \/ PageThrows} :
                   /\ crashed' = unmounted
                   /\ pendingEffects' = IF unmounted THEN {} ELSE EffectsDue
       ELSE UNCHANGED <<title, prefetched, crashed, pendingEffects>>

\* what follows the state change of a click handler, App.tsx:375-376: React
\* renders a discrete event at once, and runs the effects of that render
\* before it gives control back
CommitSync ==
    /\ ~crashed
    /\ IF Rerender
       THEN \E ranTitle \in {IF "title" \in pendingEffects
                               THEN TitleEffect(data, title) ELSE title} :
            \E ranPrefetch \in {IF "prefetch" \in pendingEffects
                                 THEN PrefetchEffect(data, currentPage, loading, isHydrated,
                                                     prefetched)
                                 ELSE prefetched} :
            \E unmounted \in {PendingThrows \/ AppThrows \/ PageThrows} :
                /\ title' = IF ~unmounted /\ "title" \in EffectsDue
                            THEN TitleEffect(data', ranTitle) ELSE ranTitle
                /\ prefetched' = IF ~unmounted /\ "prefetch" \in EffectsDue
                                 THEN PrefetchEffect(data', currentPage', loading',
                                                     isHydrated', ranPrefetch)
                                 ELSE ranPrefetch
                /\ crashed' =
                      \/ unmounted
                      \/ "title" \in EffectsDue /\ TitleEffectThrows(data')
                      \/ "prefetch" \in EffectsDue
                            /\ PrefetchEffectThrows(data', currentPage', loading', isHydrated')
                /\ pendingEffects' = {}
       ELSE UNCHANGED <<title, prefetched, crashed, pendingEffects>>

\* React runs the pending effects in a task of their own
FlushEffects ==
    /\ ~crashed
    /\ pendingEffects # {}
    /\ RunPending
    /\ crashed' = PendingThrows
    /\ pendingEffects' = {}
    /\ burst' = 0
    /\ UNCHANGED <<currentPage, data, loading, error, isHydrated, pc, request, fetchState,
                   requests, timers, payload, nexts, prevs, raw, mapped, extracted>>


(***************************************************************************)
(* The bodies a response carries.                                          *)
(***************************************************************************)
\* an activity with an empty image and a distance of its own
lastActivity == Obj([title |-> Str("Dinner"), image |-> Str(""), distance_to_next |-> Num(2)])

\* an activity whose image cannot be converted to a string
unloadableActivity ==
    Obj([title |-> Str("Stop"), image |-> Obj([toString |-> Num(1)])])

dayOf(i) ==
    Obj([date |-> Str("Day " \o ToString(i)),
         activities |-> Arr(<<anActivity, bareActivity, lastActivity>>)])

tripDoc(n, group) ==
    Obj([destination |-> Str("Paris, France"), city |-> Null,
         days |-> Arr([i \in 1..n |-> dayOf(i)]), group |-> group,
         trip_type |-> IF group = Null THEN Null ELSE Str("group")])

Bodies ==
    {tripDoc(n, g) : n \in 0..MaxDays, g \in {Null, aGroup}}
        \cup {Obj([document |-> tripDoc(1, Null)]),
              Obj([document |-> Null, city |-> Str("Rome"), destination |-> Str("Anywhere")]),
              Obj([destination |-> Str(" , France")]),
              Obj([city |-> Str(""), destination |-> Str("\f New  York\t, USA"),
                   days |-> Arr(<<oddDay>>)]),
              EmptyObj, Num(7), Null,
              Obj([days |-> Str("soon")]),
              Obj([days |-> Arr(<<Null>>)]),
              Obj([destination |-> Num(42)]),
              Obj([city |-> Obj([toString |-> Num(1)])]),
              Obj([city |-> MinusInfinity,
                   group |-> Obj([participants |-> Obj([length |-> Arr(<<MinusInfinity>>)])])]),
              Obj([days |-> Arr(<<Obj([activities |-> Arr(<<anActivity, unloadableActivity>>)])>>)]),
              Obj([city |-> Arr(<<Arr(<<Num(1), Arr(<<Num(2)>>)>>)>>),
                   group |-> Obj([participants |-> Obj([length |-> Str("5")])])]),
              Obj([notes |-> Arr(<<Str("Visa"), EmptyObj>>)]),
              Obj([traveler_name |-> Num(42), notes |-> Str("Bring ID"),
                   group |-> Obj([participants |-> Arr(<<>>)])])}

Statuses == {200, 204, 404, 500}

(***************************************************************************)
(* The application.                                                        *)
(***************************************************************************)
Init ==
    /\ currentPage = 0
    /\ data = Null
    /\ loading = TRUE
    /\ error = Null
    /\ isHydrated = FALSE
    /\ pc = "mounted"
    /\ request \in Requests
    /\ fetchState = "none"
    /\ requests = <<>>
    /\ timers = 0
    /\ payload = Undefined
    /\ nexts = 0
    /\ prevs = 0
    /\ title = HostTitle
    /\ prefetched = <<>>
    /\ burst = 0
    /\ pendingEffects = {}
    /\ crashed = FALSE
    /\ raw = Undefined
    /\ mapped = NotCalled
    /\ extracted = NotExtracted

\* App.tsx:113-115
HydrationEffect ==
    /\ pc = "mounted"
    /\ isHydrated' = TRUE
    /\ pc' = "hydrated"
    /\ UNCHANGED <<currentPage, data, loading, error, request, fetchState,
                   requests, timers, payload, nexts, prevs, raw, mapped, extracted>>
    /\ burst' = 0
    /\ Commit

\* a denial that is recorded after the demo itinerary was installed
LoadDeniedOverDemo ==
    /\ accessDenied(request)
    /\ error' = Str(UnauthorizedMessage)
    /\ loading' = FALSE
    /\ data' = IF Truthy(request.itineraryId) THEN data ELSE defaultItineraryData
    /\ UNCHANGED <<fetchState, requests, timers>>

\* App.tsx:160-164
LoadDenied ==
    /\ accessDenied(request)
    /\ error' = Str(UnauthorizedMessage)
    /\ loading' = FALSE
    /\ UNCHANGED <<data, fetchState, requests, timers>>

\* the demo branch without its setData call
LoadDemoNoData ==
    /\ ~accessDenied(request)
    /\ ~Truthy(request.itineraryId)
    /\ timers' = timers + 1
    /\ UNCHANGED <<data, loading, error, fetchState, requests>>

\* a demo branch that clears loading at once, with no timer
LoadDemoImmediate ==
    /\ ~accessDenied(request)
    /\ ~Truthy(request.itineraryId)
    /\ data' = defaultItineraryData
    /\ loading' = FALSE
    /\ UNCHANGED <<timers, error, fetchState, requests>>

\* App.tsx:166-173
LoadDemo ==
    /\ ~accessDenied(request)
    /\ ~Truthy(request.itineraryId)
    /\ data' = defaultItineraryData
    /\ timers' = timers + 1
    /\ UNCHANGED <<loading, error, fetchState, requests>>

\* the fetch branch reached although the request was denied (the early
\* return of App.tsx:163 missing)
LoadFetchAfterDenial ==
    /\ Truthy(request.itineraryId)
    /\ loading' = TRUE
    /\ error' = Null
    /\ requests' = Append(requests, API_BASE(request.env) \o "/itineraries/" \o request.itineraryId.v)
    /\ fetchState' = "pending"
    /\ UNCHANGED <<data, timers>>

\* App.tsx:175-178
LoadFetch ==
    /\ ~accessDenied(request)
    /\ Truthy(request.itineraryId)
    /\ loading' = TRUE
    /\ error' = Null
    /\ requests' = Append(requests, itineraryUrl(request.env, request.itineraryId.v))
    /\ fetchState' = "pending"
    /\ UNCHANGED <<data, timers>>

\* App.tsx:146-195, the effect that runs once after the first render
LoadEffect ==
    /\ pc = "hydrated"
    /\ pc' = "loaded"
    /\ (LoadDenied \/ LoadDemo \/ LoadFetch)
    /\ UNCHANGED <<currentPage, isHydrated, request, payload, nexts, prevs, raw, mapped, extracted>>
    /\ burst' = 0
    /\ Commit

\* a chain without its .catch: the failure is swallowed
RejectedSwallowed(e) == UNCHANGED <<error, data, currentPage, nexts, prevs>>

\* the promise chain settles: .catch(e => setError(String(e))) and then
\* fetchPromise.then(() => setTimeout(...)), App.tsx:186-194
Rejected(e) ==
    /\ error' = Str(e)
    /\ UNCHANGED <<data, currentPage, nexts, prevs>>

\* App.tsx:178-180: the response arrives, or the transport fails
FetchResponse ==
    /\ fetchState = "pending"
    /\ \/ \E status \in Statuses :
            IF status >= 200 /\ status <= 299
            THEN /\ fetchState' = "body"
                 /\ UNCHANGED <<error, data, currentPage, nexts, prevs, timers>>
            ELSE /\ Rejected("Error: failed to load itinerary: " \o ToString(status))
                 /\ fetchState' = "settled"
                 /\ timers' = timers + 1
       \/ /\ Rejected("TypeError: Failed to fetch")
          /\ fetchState' = "settled"
          /\ timers' = timers + 1
    /\ UNCHANGED <<loading, isHydrated, pc, request, requests, payload, raw, mapped, extracted>>
    /\ burst' = 0
    /\ Commit

\* an extraction that always takes the envelope's document
documentOfAlwaysUnwrap(p) ==
    IF IsNullish(p) THEN Thrown(cannotRead(p, "document")) ELSE Get(p, "document")

\* App.tsx:182, payload.document ?? payload
documentOf(p) ==
    IF IsNullish(p) THEN Thrown(cannotRead(p, "document"))
    ELSE Coalesce(Get(p, "document"), p)

\* App.tsx:182-183, the value handed to setData, or what was thrown
templateOf(p) ==
    LET doc == documentOf(p) IN
    IF doc.t = "throw" THEN doc ELSE mapDocumentToTemplate(doc)

\* texts of bodies that are no JSON: an empty body, and a page of HTML
Unparsable == {"", "<html>oops, no itinerary here</html>"}

\* String(e) of what res.json() rejects with, for the texts of Unparsable.
\* The words of the message are the engine's.  For the empty body V8's
\* parser says "Unexpected end of JSON input", which is what Node's
\* Response gives, and Chrome's Response puts words of its own before it;
\* for the page of HTML both name its first character and quote its first
\* 10 characters
jsonSyntaxErrors(text) ==
    CASE text = "" ->
            {"SyntaxError: Unexpected end of JSON input",
             "SyntaxError: Failed to execute 'json' on 'Response': "
                 \o "Unexpected end of JSON input"}
      [] text = "<html>oops, no itinerary here</html>" ->
            {"SyntaxError: Unexpected token '<', \"<html>oops\"... is not valid JSON"}

\* App.tsx:181-186: the body is read and parsed, or cannot be
FetchBody ==
    /\ fetchState = "body"
    /\ \/ /\ \E text \in Unparsable : \E e \in jsonSyntaxErrors(text) : Rejected(e)
          /\ UNCHANGED payload
       \/ \E p \in Bodies :
            /\ payload' = p
            /\ IF templateOf(p).t = "throw"
               THEN Rejected(templateOf(p).v)
               ELSE /\ data' = templateOf(p)
                    /\ currentPage' = 0
                    /\ nexts' = 0
                    /\ prevs' = 0
                    /\ UNCHANGED error
    /\ fetchState' = "settled"
    /\ timers' = timers + 1
    /\ UNCHANGED <<loading, isHydrated, pc, request, requests, raw, mapped, extracted>>
    /\ burst' = 0
    /\ Commit

\* App.tsx:169-171 and 191-193, the callback of setTimeout.  No cleanup
\* clears the timer, so it fires after the tree was unmounted as well, and
\* setLoading then reaches no component
TimerFire ==
    /\ timers > 0
    /\ timers' = timers - 1
    /\ UNCHANGED <<currentPage, data, error, isHydrated, pc, request, fetchState,
                   requests, payload, nexts, prevs, raw, mapped, extracted>>
    /\ burst' = 0
    /\ IF crashed
       THEN UNCHANGED <<loading, title, prefetched, crashed, pendingEffects>>
       ELSE /\ loading' = FALSE
            /\ Commit

\* the bound off by one
nextPageOffByOne(prev, total) == IF prev < total THEN prev + 1 ELSE prev

\* the lower bound missing
previousPageUnbounded(prev) == prev - 1

\* a step forward that returns to the cover from the last page
nextPageWraps(prev, total) == IF prev < total - 1 THEN prev + 1 ELSE 0

\* App.tsx:292-297, the updater handed to setCurrentPage
nextPage(prev, total) == IF prev < total - 1 THEN prev + 1 ELSE prev

\* App.tsx:301-306
previousPage(prev) == IF prev > 0 THEN prev - 1 ELSE prev

\* App.tsx:291-298, called by the Next button of the navigation controls,
\* which App.tsx:369-379 renders with the pages
HandleNext ==
    /\ pagesRendered
    /\ nexts + prevs < MaxCalls
    /\ currentPage' = nextPage(currentPage, totalPages)
    /\ nexts' = nexts + 1
    /\ UNCHANGED <<data, loading, error, isHydrated, pc, request, fetchState,
                   requests, timers, payload, prevs, raw, mapped, extracted>>
    /\ burst' = 0
    /\ CommitSync

\* App.tsx:300-307, called by the Previous button of the same controls
HandlePrevious ==
    /\ pagesRendered
    /\ nexts + prevs < MaxCalls
    /\ currentPage' = previousPage(currentPage)
    /\ prevs' = prevs + 1
    /\ UNCHANGED <<data, loading, error, isHydrated, pc, request, fetchState,
                   requests, timers, payload, nexts, raw, mapped, extracted>>
    /\ burst' = 0
    /\ CommitSync

\* calls that each start from the page of the last render
applyUpdatesStale(start, total, op, k) ==
    IF op = "next" THEN nextPage(start, total) ELSE previousPage(start)

\* the queue of k updaters of App.tsx:292-297 or 301-306, each applied
\* to the result of the one before it
applyUpdates(start, total, op, k) ==
    LET run[i \in 0..k] ==
            IF i = 0 THEN start
            ELSE IF op = "next" THEN nextPage(run[i - 1], total)
            ELSE previousPage(run[i - 1])
    IN  run[k]

\* k calls of handleNext, or of handlePrevious, before the next render
RapidCalls ==
    /\ pagesRendered
    /\ \E op \in {"next", "previous"} : \E k \in 2..MaxBurst :
         /\ nexts + prevs + k <= MaxCalls
         /\ currentPage' = applyUpdates(currentPage, totalPages, op, k)
         /\ nexts' = IF op = "next" THEN nexts + k ELSE nexts
         /\ prevs' = IF op = "previous" THEN prevs + k ELSE prevs
         /\ burst' = IF op = "next" THEN k ELSE 0 - k
    /\ UNCHANGED <<data, loading, error, isHydrated, pc, request, fetchState,
                   requests, timers, payload, raw, mapped, extracted>>
    /\ CommitSync

Next ==
    \/ HydrationEffect
    \/ LoadEffect
    \/ FetchResponse
    \/ FetchBody
    \/ TimerFire
    \/ HandleNext
    \/ HandlePrevious
    \/ RapidCalls
    \/ FlushEffects

Spec == Init /\ [][Next]_vars

(***************************************************************************)
(* The mapper on its own.                                                  *)
(***************************************************************************)
\* React runs both mount effects after the first commit, the event loop
\* runs every timer callback that is due, and the fetch promise settles
\* (the response arrives or the transport fails, and the body is read)
SpecFair ==
    /\ Spec
    /\ WF_vars(HydrationEffect)
    /\ WF_vars(LoadEffect)
    /\ WF_vars(FetchResponse)
    /\ WF_vars(FetchBody)
    /\ WF_vars(TimerFire)
    /\ WF_vars(FlushEffects)

\* App.tsx:181-183 on a body that is the document itself
ExtractBare ==
    /\ extracted.bare = NotCalled
    /\ extracted' = [extracted EXCEPT !.bare = templateOf(raw)]
    /\ UNCHANGED <<raw, mapped, appVars>>

\* App.tsx:181-183 on a body that carries the document under "document"
ExtractWrapped ==
    /\ extracted.wrapped = NotCalled
    /\ extracted' = [extracted EXCEPT !.wrapped = templateOf(Obj([document |-> raw]))]
    /\ UNCHANGED <<raw, mapped, appVars>>

InitMap ==
    /\ currentPage = 0
    /\ data = Null
    /\ loading = TRUE
    /\ error = Null
    /\ isHydrated = FALSE
    /\ pc = "mounted"
    /\ request = CHOOSE r \in Requests : TRUE
    /\ fetchState = "none"
    /\ requests = <<>>
    /\ timers = 0
    /\ payload = Undefined
    /\ nexts = 0
    /\ prevs = 0
    /\ title = HostTitle
    /\ prefetched = <<>>
    /\ burst = 0
    /\ pendingEffects = {}
    /\ crashed = FALSE
    /\ raw \in RawDocs
    /\ mapped = NotCalled
    /\ extracted = NotExtracted

NextMap == MapDocument \/ ExtractBare \/ ExtractWrapped

SpecMap == InitMap /\ [][NextMap]_vars

(***************************************************************************)
(* Vocabulary of the properties, written from the wording of the           *)
(* specification and not from the operators above.                         *)
(***************************************************************************)
\* the own property k of a document, undefined when there is none
Prop(o, k) == IF o.t = "object" /\ k \in DOMAIN o.v THEN o.v[k] ELSE Undefined

Missing(x) == x = Undefined \/ x = Null

ListOrMissing(x) == Missing(x) \/ x.t = "array"

\* the document is not null, its days is absent, null or a list of
\* entries, and so is every entry's activities; no entry of either list is
\* null
WellShaped(doc) ==
    LET days == Prop(doc, "days") IN
    /\ ~Missing(doc)
    /\ ListOrMissing(days)
    /\ days.t = "array" =>
         \A i \in 1..Len(days.v) :
            LET acts == Prop(days.v[i], "activities") IN
            /\ ~Missing(days.v[i])
            /\ ListOrMissing(acts)
            /\ acts.t = "array" => \A j \in 1..Len(acts.v) : ~Missing(acts.v[j])

\* the document inside a body: the value under "document", or the body
Enveloped(p) == IF Missing(Prop(p, "document")) THEN p ELSE Prop(p, "document")

\* a body the load cannot turn into an itinerary
Unprocessable(p) == Missing(p) \/ ~WellShaped(Enveloped(p))

secretOf(r) == r.env.VITE_TEMPLATE_SECRET

SecretConfigured(r) == secretOf(r).t = "string" /\ secretOf(r).v # ""

domainOf(r) ==
    IF r.env.VITE_ALLOWED_REFERER = Undefined THEN "traverse-hq.com"
    ELSE r.env.VITE_ALLOWED_REFERER.v

RefererMatches(r) ==
    \E i \in 1..Len(r.referer) : \E j \in i..Len(r.referer) :
        SubSeq(r.referer, i, j) = domainOf(r)

TokenMatches(r) == r.token = secretOf(r)

IdSupplied(r) == r.itineraryId.t = "string" /\ r.itineraryId.v # ""

Unauthorized == error = Str(UnauthorizedMessage)

\* the access check as the specification words it
Accepted(r) == ~SecretConfigured(r) \/ RefererMatches(r) \/ TokenMatches(r)

Min(a, b) == IF a < b THEN a ELSE b

(***************************************************************************)
(* C1: handleNext moves currentPage to currentPage+1 only when             *)
(* currentPage < totalPages-1 and handlePrevious to currentPage-1 only     *)
(* when currentPage > 0; otherwise the page stays.  With no previous()     *)
(* call, n next() calls from page 0 end on page min(n, totalPages-1): with *)
(* totalPages = 5 four calls reach 4 and every further call stays at 4.    *)
(***************************************************************************)
C1_StepRule ==
    /\ nexts' = nexts + 1 =>
         /\ currentPage' = IF currentPage < totalPages - 1 THEN currentPage + 1 ELSE currentPage
         /\ data' = data
    /\ prevs' = prevs + 1 =>
         /\ currentPage' = IF currentPage > 0 THEN currentPage - 1 ELSE currentPage
         /\ data' = data

C1_Clamped ==
    /\ Truthy(data) /\ prevs = 0 => currentPage = Min(nexts, totalPages - 1)
    /\ totalPages = 5 /\ prevs = 0 /\ nexts >= 4 => currentPage = 4

C1_NavigationBounded == [][C1_StepRule]_vars /\ []C1_Clamped

C1_Witness == totalPages = 5 /\ prevs = 0 /\ nexts = 5 /\ currentPage = 4

(***************************************************************************)
(* C2 as stated: in every reachable state 0 <= currentPage <= totalPages-1.*)
(* It fails while no itinerary is installed, where totalPages is 0.        *)
(***************************************************************************)
C2_Original == 0 <= currentPage /\ currentPage <= totalPages - 1

(***************************************************************************)
(* C2 amended: whenever an itinerary is installed,                         *)
(* 0 <= currentPage <= totalPages-1 with totalPages >= 2; while none is    *)
(* installed totalPages is 0 and currentPage stays 0.                      *)
(***************************************************************************)
C2_PageInRange ==
    IF data = Null
    THEN totalPages = 0 /\ currentPage = 0
    ELSE totalPages >= 2 /\ 0 <= currentPage /\ currentPage <= totalPages - 1

C2_Witness ==
    /\ data # Null
    /\ currentPage = 0
    /\ prevs > nexts

(***************************************************************************)
(* C3: while the tree is mounted the overlay is dismissed exactly when      *)
(* loading is false, the view is hydrated and data is an itinerary; pages  *)
(* and controls are rendered only then, and only once the load has         *)
(* resolved and its settle timer fired.                                    *)
(***************************************************************************)
C3_ReadinessGate ==
    /\ ~crashed =>
         (~overlayRendered <=> (loading = FALSE /\ isHydrated /\ data # Null /\ data.t = "object"))
    /\ pagesRendered =>
         /\ ~overlayRendered
         /\ pc = "loaded"
         /\ fetchState \in {"none", "settled"}
         /\ fetchState = "settled" <=> IdSupplied(request)
         /\ timers = 0

C3_Witness == pagesRendered /\ fetchState = "settled" /\ currentPage > 0

(***************************************************************************)
(* C4: with a non-empty secret the load is accepted iff the referrer       *)
(* contains the allowed domain or the token equals the secret; otherwise   *)
(* the result is Unauthorized, no fetch is ever issued and data stays      *)
(* null; a token equal to the secret is accepted whatever the referrer.    *)
(***************************************************************************)
C4_AccessCheck ==
    pc = "loaded" /\ SecretConfigured(request) =>
        IF RefererMatches(request) \/ TokenMatches(request)
        THEN /\ ~Unauthorized
             /\ IdSupplied(request) => Len(requests) = 1
             /\ ~IdSupplied(request) => data # Null
        ELSE /\ Unauthorized
             /\ requests = <<>>
             /\ fetchState = "none"
             /\ data = Null

C4_Witness ==
    /\ pc = "loaded"
    /\ SecretConfigured(request)
    /\ TokenMatches(request)
    /\ ~RefererMatches(request)
    /\ Len(requests) = 1

(***************************************************************************)
(* C5: with the secret unset or empty the path of the load is decided by   *)
(* the itinerary id alone, whatever the referrer and the token: a fetch of *)
(* that id when one is supplied, the demo itinerary otherwise, never       *)
(* Unauthorized.                                                           *)
(***************************************************************************)
C5_OpenAccess ==
    pc = "loaded" /\ ~SecretConfigured(request) =>
        /\ ~Unauthorized
        /\ IF IdSupplied(request)
           THEN requests = <<"/api/itineraries/" \o request.itineraryId.v>>
           ELSE requests = <<>> /\ data # Null

C5_Witness ==
    /\ pc = "loaded"
    /\ ~SecretConfigured(request)
    /\ ~RefererMatches(request)
    /\ request.token = Str("abcd")
    /\ Len(requests) = 1

(***************************************************************************)
(* C6 as stated: with no itineraryId the load installs the demo itinerary  *)
(* and issues no fetch, for every secret, referrer and token.  It fails    *)
(* when the access check denies the request.                               *)
(***************************************************************************)
C6_Original ==
    pc = "loaded" /\ ~IdSupplied(request) =>
        data = defaultItineraryData /\ requests = <<>>

(***************************************************************************)
(* C6 amended: with no itineraryId no fetch is issued, and the demo        *)
(* itinerary is installed with no error exactly when the access check      *)
(* accepts the request; when it denies, data stays null.                   *)
(***************************************************************************)
C6_DemoFallback ==
    pc = "loaded" /\ ~IdSupplied(request) =>
        /\ requests = <<>>
        /\ fetchState = "none"
        /\ IF SecretConfigured(request) /\ ~RefererMatches(request) /\ ~TokenMatches(request)
           THEN data = Null /\ Unauthorized
           ELSE data = defaultItineraryData /\ error = Null /\ totalPages = 5

C6_Witness ==
    /\ pc = "loaded"
    /\ request.itineraryId = Null
    /\ SecretConfigured(request)
    /\ data = defaultItineraryData
    /\ loading = FALSE

(***************************************************************************)
(* C7: when the fetch answers with a non-2xx status, the transport fails   *)
(* or the body cannot be processed, error is set, data stays null,         *)
(* currentPage stays 0, and pages and controls are never rendered.         *)
(***************************************************************************)
C7_FetchFailure ==
    fetchState = "settled" /\ (payload = Undefined \/ Unprocessable(payload)) =>
        /\ error # Null /\ error.t = "string" /\ error.v # ""
        /\ data = Null
        /\ currentPage = 0
        /\ ~pagesRendered

C7_Witness ==
    /\ fetchState = "settled"
    /\ payload = Obj([days |-> Str("soon")])
    /\ error # Null
    /\ loading = FALSE

(***************************************************************************)
(* C8: a mount issues at most one fetch: exactly one, of the supplied id,  *)
(* when an id is supplied and the request is accepted, none otherwise, and *)
(* none is added after a failure or a navigation step.                     *)
(***************************************************************************)
C8_AtMostOneFetch ==
    /\ Len(requests) <= 1
    /\ pc # "loaded" => requests = <<>>
    /\ pc = "loaded" =>
         Len(requests) = IF IdSupplied(request) /\ Accepted(request) THEN 1 ELSE 0
    /\ requests # <<>> => requests[1] = "/api/itineraries/" \o request.itineraryId.v

C8_Witness ==
    /\ Len(requests) = 1
    /\ fetchState = "settled"
    /\ error # Null
    /\ loading = FALSE

(***************************************************************************)
(* C9: the mapper returns for every document, whose every field (days and  *)
(* each day's activities among them) is absent, null, of the wrong type or *)
(* valid, an itinerary with no undefined field and a list of days, and     *)
(* never throws.  It fails on a document that is null, on a days or an     *)
(* activities value that is present and no list, and on a null entry of    *)
(* either list: the mapper throws a TypeError.                             *)
(***************************************************************************)
ItineraryKeys == {"tripName", "traveler", "destination", "city", "duration", "dates",
                  "coverImage", "days", "notes", "tripType", "group"}

DefinedItinerary(m) ==
    /\ m.t = "object"
    /\ DOMAIN m.v = ItineraryKeys
    /\ \A k \in ItineraryKeys : m.v[k] # Undefined
    /\ m.v.days.t = "array"
    /\ \A i \in 1..Len(m.v.days.v) :
         LET day == m.v.days.v[i] IN
         /\ day.t = "object"
         /\ DOMAIN day.v = {"dayNumber", "date", "activities"}
         /\ \A k \in DOMAIN day.v : day.v[k] # Undefined
         /\ day.v.activities.t = "array"
         /\ \A j \in 1..Len(day.v.activities.v) :
              LET a == day.v.activities.v[j] IN
              /\ a.t = "object"
              /\ \A k \in DOMAIN a.v : a.v[k] # Undefined

\* C9, as stated
C9_Original == mapped # NotCalled => DefinedItinerary(mapped)

\* what the code does in its place: it returns such an itinerary exactly for
\* the documents that are not null and whose days, and whose every day's
\* activities, are absent, null or a list without null entries; for every
\* other document it throws a TypeError
C9_TotalOnWellShaped ==
    mapped # NotCalled =>
        IF WellShaped(raw)
        THEN DefinedItinerary(mapped)
        ELSE mapped.t = "throw" /\ SubSeq(mapped.v, 1, 10) = "TypeError:"

C9_Witness ==
    /\ raw = Obj([days |-> Str("soon")])
    /\ mapped = Thrown("TypeError: (doc.days ?? []).map is not a function")

(***************************************************************************)
(* C10: each of traveler, destination, duration, dates, coverImage, notes, *)
(* tripType and group takes its default when the source field is missing   *)
(* or has the wrong type, and the source value only when that is present   *)
(* with the right type.  It fails on a value of the wrong type, which the  *)
(* mapper copies.                                                          *)
(***************************************************************************)
DefaultedFields ==
    {<<"traveler_name", "traveler", Str("Traveler")>>,
     <<"destination", "destination", Str("Destination")>>,
     <<"duration", "duration", Str("Trip")>>,
     <<"dates", "dates", Str("")>>,
     <<"cover_image", "coverImage",
       Str("https://images.unsplash.com/photo-1500530855697-b586d89ba3ee?q=80&w=1200&auto=format&fit=crop")>>,
     <<"notes", "notes", Arr(<<>>)>>,
     <<"trip_type", "tripType", Null>>,
     <<"group", "group", Null>>}

RightType(k, x) ==
    CASE k = "notes" -> x.t = "array"
      [] k = "group" -> x.t = "object"
      [] OTHER -> x.t = "string"

\* C10, as stated
C10_Original ==
    mapped # NotCalled /\ mapped.t = "object" =>
        \A f \in DefaultedFields :
            mapped.v[f[2]] = IF ~Missing(Prop(raw, f[1])) /\ RightType(f[1], Prop(raw, f[1]))
                             THEN Prop(raw, f[1]) ELSE f[3]

\* what the code does in its place: each of the eight fields takes its
\* default exactly when the source field is absent or null, and otherwise
\* the source value unchanged, whatever its type
C10_DefaultsOnMissing ==
    mapped # NotCalled /\ mapped.t = "object" =>
        \A f \in DefaultedFields :
            mapped.v[f[2]] = IF Missing(Prop(raw, f[1])) THEN f[3] ELSE Prop(raw, f[1])

C10_Witness ==
    /\ mapped # NotCalled /\ mapped.t = "object"
    /\ Prop(raw, "traveler_name") = Num(42)
    /\ mapped.v.traveler = Num(42)
    /\ Prop(raw, "dates") = Null
    /\ mapped.v.dates = Str("")

(***************************************************************************)
(* C11: the i-th entry (0-based) of the mapped days has dayNumber i+1 and  *)
(* is the image of the i-th source day: the order of the source is kept,   *)
(* whatever numbering the source days carry.                               *)
(***************************************************************************)
\* the date and the number of activities the source day hands over
SourceDate(day) == IF Missing(Prop(day, "date")) THEN Str("") ELSE Prop(day, "date")

SourceActivityCount(day) ==
    IF Missing(Prop(day, "activities")) THEN 0 ELSE Len(Prop(day, "activities").v)

C11_DayNumbering ==
    mapped # NotCalled /\ mapped.t = "object" =>
        LET src == IF Missing(Prop(raw, "days")) THEN <<>> ELSE Prop(raw, "days").v
            out == mapped.v.days.v
        IN  /\ Len(out) = Len(src)
            /\ \A i \in 1..Len(out) :
                 /\ out[i].v.dayNumber = Num(i)
                 /\ out[i].v.date = SourceDate(src[i])
                 /\ Len(out[i].v.activities.v) = SourceActivityCount(src[i])

C11_Witness ==
    /\ mapped # NotCalled /\ mapped.t = "object"
    /\ Len(mapped.v.days.v) = 3
    /\ Prop(raw, "days").v[3] = Obj([dayNumber |-> Num(7), date |-> Str("Friday, May 1"),
                                      activities |-> Arr(<<anActivity, bareActivity>>)])
    /\ Prop(raw, "days").v[1] = Obj([date |-> Null, activities |-> Null])
    /\ mapped.v.days.v[3].v.dayNumber = Num(3)
    /\ mapped.v.days.v[3].v.date = Str("Friday, May 1")

(***************************************************************************)
(* C12: the mapped distance to the next activity is the source value only  *)
(* if that is a finite number, and null for every other source value       *)
(* (absent, null, a string, an infinite number).  It fails on a string and *)
(* on an infinite number, which the mapper copies.                         *)
(***************************************************************************)
IsFiniteNumber(x) == x.t = "number" /\ DOMAIN x = {"t", "v"}

\* the pairs <<source activity, mapped activity>> of a mapped document
ActivityPairs ==
    IF mapped = NotCalled \/ mapped.t # "object" \/ Missing(Prop(raw, "days")) THEN {}
    ELSE UNION {
           IF Missing(Prop(Prop(raw, "days").v[i], "activities")) THEN {}
           ELSE {<<Prop(Prop(raw, "days").v[i], "activities").v[j],
                   mapped.v.days.v[i].v.activities.v[j]>> :
                     j \in 1..Len(mapped.v.days.v[i].v.activities.v)} :
           i \in 1..Len(mapped.v.days.v)}

\* C12, as stated
C12_Original ==
    \A pr \in ActivityPairs :
        pr[2].v.distance_to_next =
            IF IsFiniteNumber(Prop(pr[1], "distance_to_next"))
            THEN Prop(pr[1], "distance_to_next") ELSE Null

\* what the code does in its place: the mapped distance is null exactly
\* when the source value is absent or null; every other source value, a
\* finite number or not, is copied unchanged
C12_DistancePassThrough ==
    \A pr \in ActivityPairs :
        pr[2].v.distance_to_next =
            IF Missing(Prop(pr[1], "distance_to_next"))
            THEN Null ELSE Prop(pr[1], "distance_to_next")

C12_Witness ==
    \E pr \in ActivityPairs : \E qr \in ActivityPairs :
        /\ Prop(pr[1], "distance_to_next") = Str("far")
        /\ pr[2].v.distance_to_next = Str("far")
        /\ Prop(qr[1], "distance_to_next") = Undefined
        /\ qr[2].v.distance_to_next = Null

(***************************************************************************)
(* C13: totalPages = 1 + (hasParticipants ? 1 : 0) + days.length + 1, at   *)
(* least 2, and over the indices 0..totalPages-1 the rendered page is      *)
(* Cover at 0, Participants at 1 iff hasParticipants, the days in order    *)
(* from the index after that, and Notes exactly at the last index; every   *)
(* day is rendered at exactly one index.  A group with a non-empty list of *)
(* participants has participants.                                          *)
(***************************************************************************)
\* a group with a non-empty list of participants
WithParticipants(d) ==
    LET ps == Prop(Prop(d, "group"), "participants") IN
    ps.t = "array" /\ Len(ps.v) > 0

DayCount(d) == Len(d.v.days.v)

C13_PageModel ==
    data # Null =>
        LET shift == IF hasParticipants THEN 2 ELSE 1
            n == DayCount(data)
            kindAt(idx) == renderPageOf(data, idx).kind
            keyAt(idx) == renderPageOf(data, idx).key
        IN  /\ totalPages = shift + n + 1
            /\ totalPages >= 2
            /\ WithParticipants(data) => hasParticipants
            /\ \A idx \in 0..(totalPages - 1) :
                 /\ kindAt(idx) = "CoverPage" <=> idx = 0
                 /\ kindAt(idx) = "ParticipantsPage" <=> (idx = 1 /\ hasParticipants)
                 /\ kindAt(idx) = "NotesPage" <=> idx = totalPages - 1
                 /\ kindAt(idx) = "DayPage" <=> (idx >= shift /\ idx < shift + n)
                 /\ kindAt(idx) = "DayPage" =>
                      /\ keyAt(idx) = "day-" \o ToString(idx - shift)
                      /\ renderPageOf(data, idx).props.dayNumber = data.v.days.v[idx - shift + 1].v.dayNumber
                      /\ renderPageOf(data, idx).props.activities = data.v.days.v[idx - shift + 1].v.activities
            /\ \A k \in 0..(n - 1) :
                 Cardinality({idx \in 0..(totalPages - 1) : keyAt(idx) = "day-" \o ToString(k)}) = 1

C13_Witness ==
    /\ pagesRendered
    /\ WithParticipants(data)
    /\ DayCount(data) = 2
    /\ currentPage = 4
    /\ renderCurrentPage.kind = "NotesPage"

(***************************************************************************)
(* C14: once an itinerary is installed and the title effect of that render *)
(* has had its run, the document title is the city when there is one, else *)
(* the first comma-delimited segment of the destination, else "My          *)
(* Itinerary" ("Paris, France" gives "Paris"; city "Rome" with destination *)
(* "Anywhere" gives "Rome"); while no itinerary is installed, and so after *)
(* a denied or failed load, the title is the one the hosting page had.     *)
(* The claim is read in its favour: a city is there when it is truthy, the *)
(* segment is taken without the white space around it and counts as        *)
(* missing when nothing is left of it, the title is compared as the        *)
(* document shows a text (its words separated by single spaces), and of a  *)
(* city or a destination that is no text the claim is taken to ask only    *)
(* that the title was written.  It fails on an itinerary whose destination *)
(* is a number, and on one whose city cannot be converted to a string: the *)
(* title effect throws, the title stays the hosting page's and the tree is *)
(* unmounted.                                                              *)
(***************************************************************************)
\* the white space a string of the model can hold
BlankCharacters == {fromCharCode(n) : n \in Whitespace \cap CharCodes}

\* every character of s is white space
Blank(s) == \A i \in 1..Len(s) : SubSeq(s, i, i) \in BlankCharacters

\* the value is there: not undefined, null, empty, zero or false
Present(x) == x \notin {Undefined, Null, Str(""), Num(0), Bool(FALSE)}

\* seg is the text of s before its first comma, or s when it has none
FirstSegmentOf(s, seg) ==
    \E n \in 0..Len(s) :
        /\ seg = SubSeq(s, 1, n)
        /\ \A i \in 1..n : SubSeq(s, i, i) # ","
        /\ n < Len(s) => SubSeq(s, n + 1, n + 1) = ","

\* t is seg without its leading and trailing blanks
Stripped(seg, t) ==
    \E a \in 1..Len(seg) + 1 : \E b \in 0..Len(seg) :
        /\ t = SubSeq(seg, a, b)
        /\ Blank(SubSeq(seg, 1, a - 1)) /\ Blank(SubSeq(seg, b + 1, Len(seg)))
        /\ t # "" => ~Blank(SubSeq(t, 1, 1)) /\ ~Blank(SubSeq(t, Len(t), Len(t)))

\* the words of s: its longest stretches without a space, tab, line feed,
\* form feed or carriage return
Words(s) ==
    LET gap(i) == SubSeq(s, i, i) \in {" ", "\t", "\n", "\f", "\r"}
        starts == {i \in 1..Len(s) : ~gap(i) /\ (i = 1 \/ gap(i - 1))}
        endOf(i) == CHOOSE j \in i..Len(s) :
                        /\ \A k \in i..j : ~gap(k)
                        /\ j = Len(s) \/ gap(j + 1)
    IN  {<<i, SubSeq(s, i, endOf(i))>> : i \in starts}

\* t shows the text s: the same words in the same order, one space between
\* two of them and nothing else
Shows(t, s) ==
    /\ Cardinality(Words(t)) = Cardinality(Words(s))
    /\ \A v, w \in Words(t) : \A x, y \in Words(s) :
           /\ Cardinality({u \in Words(t) : u[1] < v[1]})
                 = Cardinality({u \in Words(s) : u[1] < x[1]}) => v[2] = x[2]
           /\ v[1] < w[1] /\ (\A u \in Words(t) : ~(v[1] < u[1] /\ u[1] < w[1]))
                 => w[1] = v[1] + Len(v[2]) + 1 /\ SubSeq(t, w[1] - 1, w[1] - 1) = " "
    /\ t # "" => SubSeq(t, 1, 1) # " " /\ SubSeq(t, Len(t), Len(t)) # " "
    /\ Words(t) = {} => t = ""

TitleFollows(d, t) ==
    LET city == Prop(d, "city")
        destination == Prop(d, "destination")
    IN  IF Present(city)
        THEN IF city.t = "string" THEN Shows(t, city.v) ELSE t # HostTitle
        ELSE IF ~Present(destination) THEN t = "My Itinerary"
        ELSE IF destination.t # "string" THEN t # HostTitle
        ELSE \E n \in 0..Len(destination.v) : \E a \in 1..n + 1 : \E b \in 0..n :
                LET seg == SubSeq(destination.v, 1, n) IN
                /\ FirstSegmentOf(destination.v, seg)
                /\ Stripped(seg, SubSeq(seg, a, b))
                /\ IF SubSeq(seg, a, b) = "" THEN t = "My Itinerary"
                   ELSE Shows(t, SubSeq(seg, a, b))

\* an itinerary is installed and its title effect has had its run
TitleEffectRan == data # Null /\ "title" \notin pendingEffects

\* C14, as read above
C14_Original ==
    /\ data = Null => title = HostTitle
    /\ error # Null => title = HostTitle
    /\ TitleEffectRan => TitleFollows(data, title)
    /\ TitleEffectRan /\ Prop(data, "city") = Null
          /\ Prop(data, "destination") = Str("Paris, France") => title = "Paris"
    /\ TitleEffectRan /\ Prop(data, "city") = Str("Rome") => title = "Rome"

\* the title effect has nothing to make a title of: the destination it
\* would split is no string, or the city it would assign has no string
TitleUnwritable(d) ==
    LET city == Prop(d, "city")
        destination == Prop(d, "destination")
    IN  IF Present(city) THEN toPrimitiveThrows(city)
        ELSE Present(destination) /\ destination.t # "string"

\* what the code does in its place: the title follows the itinerary where
\* the effect can make a title of it, and until the effect has run the
\* title is the hosting page's; where the effect cannot, the title stays
\* the hosting page's and the tree is unmounted
C14_TitleUnlessThrown ==
    /\ data = Null => title = HostTitle
    /\ data # Null /\ "title" \in pendingEffects => title = HostTitle
    /\ TitleEffectRan /\ ~TitleUnwritable(data) => TitleFollows(data, title)
    /\ TitleEffectRan /\ TitleUnwritable(data) => title = HostTitle /\ crashed

C14_Witness ==
    /\ fetchState = "settled" /\ error = Null /\ TitleEffectRan
    /\ Prop(data, "city") = Null /\ Prop(data, "destination") = Num(42)
    /\ title = HostTitle /\ crashed

(***************************************************************************)
(* C15: nothing is prefetched while the loading overlay is due (loading,   *)
(* not hydrated or no itinerary); once it is not, and the prefetch effect  *)
(* of the page on display has had its run, the set of image references     *)
(* requested is exactly the set of references the renderer hands to the    *)
(* images of pages currentPage+1 and currentPage-1 where those indices     *)
(* exist: the cover image of the cover, the image of every activity of a   *)
(* day, none for the participants and the notes; and a run of the prefetch *)
(* effect changes no application state: the step in which it runs alone    *)
(* leaves the application as it was, mounted.  It fails on an activity     *)
(* whose image is the empty string, which the day page hands to its image  *)
(* and the effect does not request, and on an image that cannot be         *)
(* converted to a string: the effect throws where it assigns it, and the   *)
(* tree is unmounted.                                                      *)
(***************************************************************************)
RefsOf(q) == {q[i] : i \in 1..Len(q)}

ShownOn(page) ==
    IF page \in 0..totalPages - 1 THEN RefsOf(imagesShown(renderPageOf(data, page))) ELSE {}

\* the page is on display and its prefetch effect has run
Prefetched == ~showLoading /\ ~crashed /\ "prefetch" \notin pendingEffects

C15_Exact ==
    /\ showLoading => prefetched = <<>>
    /\ Prefetched =>
          RefsOf(prefetched) = ShownOn(currentPage + 1) \cup ShownOn(currentPage - 1)

\* the step runs the prefetch effect and nothing else
PrefetchAlone ==
    /\ pendingEffects = {"prefetch"} /\ pendingEffects' = {}
    /\ UNCHANGED <<currentPage, data, loading, error, isHydrated>>

\* C15, of one step: what is requested after it, and what a lone run of
\* the prefetch effect leaves alone
C15_OriginalStep == C15_Exact' /\ (PrefetchAlone => crashed' = crashed)

\* C15, of every step
C15_Original == [][C15_OriginalStep]_vars

\* the references that are not empty
Refs(q) == {q[i] : i \in {j \in 1..Len(q) : Truthy(q[j])}}

\* what the code does in its place: while the tree is mounted the
\* references requested are those of the adjacent pages that are not empty
C15_NonEmptyRequested ==
    /\ showLoading => prefetched = <<>>
    /\ Prefetched =>
          Refs(prefetched) =
              {r \in ShownOn(currentPage + 1) \cup ShownOn(currentPage - 1) : Truthy(r)}

C15_Witness ==
    /\ crashed /\ ~showLoading /\ error = Null
    /\ currentPage = 0 /\ nexts = 0 /\ prevs = 0
    /\ payload = Obj([days |-> Arr(<<Obj([activities |-> Arr(<<anActivity, unloadableActivity>>)])>>)])
    /\ data = mapDocumentToTemplate(payload)
    /\ prefetched = <<Str("https://img.example/louvre.jpg")>>

(***************************************************************************)
(* C16: k calls of handleNext issued before any re-render, with an         *)
(* itinerary installed, leave currentPage at min(start+k, totalPages-1),   *)
(* and k calls of handlePrevious at max(start-k, 0): every call is applied *)
(* once, to the result of the call before it.  They change nothing else of *)
(* the application state.                                                  *)
(***************************************************************************)
Max(a, b) == IF a > b THEN a ELSE b

C16_RapidStep ==
    /\ burst' > 0 =>
         /\ currentPage' = Min(currentPage + burst', totalPages - 1)
         /\ nexts' = nexts + burst'
    /\ burst' < 0 =>
         /\ currentPage' = Max(currentPage + burst', 0)
         /\ prevs' = prevs - burst'
    /\ burst' # 0 => Truthy(data) /\ UNCHANGED <<data, loading, error, isHydrated>>

C16_RapidCallsApplied == [][C16_RapidStep]_vars

C16_Witness ==
    /\ burst = 2 /\ totalPages = 5
    /\ nexts = 3 /\ prevs = 0
    /\ currentPage = 3

(***************************************************************************)
(* C17: a step changes currentPage only as calls of handleNext move it     *)
(* forward to an index of at most totalPages-1, as calls of handlePrevious *)
(* move it back to an index of at least 0, both with the itinerary left as *)
(* it is, or as the installation of an itinerary sets it to 0; and every   *)
(* step that installs an itinerary, from a fetch or from the demo data,    *)
(* ends with currentPage = 0.                                              *)
(***************************************************************************)
C17_Step ==
    /\ currentPage' # currentPage =>
         \/ /\ data' = data /\ Truthy(data)
            /\ nexts' > nexts /\ prevs' = prevs
            /\ currentPage < currentPage' /\ currentPage' <= totalPages - 1
            /\ currentPage' - currentPage <= nexts' - nexts
         \/ /\ data' = data /\ Truthy(data)
            /\ prevs' > prevs /\ nexts' = nexts
            /\ 0 <= currentPage' /\ currentPage' < currentPage
            /\ currentPage - currentPage' <= prevs' - prevs
         \/ data' # data /\ currentPage' = 0
    /\ data' # data => Truthy(data') /\ currentPage' = 0 /\ nexts' = nexts /\ prevs' = prevs

C17_OnlyBoundedOrReset == [][C17_Step]_vars

C17_Witness ==
    /\ Truthy(data) /\ loading /\ timers = 1
    /\ currentPage = 0 /\ nexts = 0 /\ prevs = 0
    /\ fetchState = "settled" /\ payload # Undefined

(***************************************************************************)
(* C18 as stated: the body {document: D} and the bare body D are mapped to *)
(* the same itinerary (or fail with the same error), the one the mapper    *)
(* makes of D, for every D.  It fails on a D that is null, and on a D that *)
(* has a field named document of its own that is not null.                 *)
(***************************************************************************)
\* C18, as stated
C18_Original ==
    /\ extracted.bare # NotCalled /\ extracted.wrapped # NotCalled
          => extracted.bare = extracted.wrapped
    /\ extracted.wrapped # NotCalled /\ mapped # NotCalled => extracted.wrapped = mapped
    /\ extracted.bare # NotCalled /\ mapped # NotCalled => extracted.bare = mapped

(***************************************************************************)
(* C18 amended: the body {document: D} and the bare body D are mapped to   *)
(* the same itinerary (or fail with the same error), the one the mapper    *)
(* makes of D, for every D that is not null and has no field named         *)
(* document of its own, or has one that is null.  Of every body that is    *)
(* not null the controller maps the field document when that is there and  *)
(* not null, and the body itself otherwise: {document: D} is mapped as D   *)
(* for every D that is not null and as the envelope itself for a null D,   *)
(* and a bare D with a field document that is not null is mapped as that   *)
(* field is.                                                               *)
(***************************************************************************)
\* D is a document the two bodies agree on
Plain(doc) == ~Missing(doc) /\ Missing(Prop(doc, "document"))

\* what the controller maps of a body that is not null
Extracted(body) ==
    IF Missing(Prop(body, "document")) THEN body ELSE Prop(body, "document")

C18_EnvelopeEquivalence ==
    /\ Plain(raw) /\ extracted.bare # NotCalled /\ extracted.wrapped # NotCalled
          => extracted.bare = extracted.wrapped
    /\ Plain(raw) /\ extracted.bare # NotCalled /\ mapped # NotCalled
          => extracted.bare = mapped
    /\ ~Missing(raw) /\ extracted.wrapped # NotCalled /\ mapped # NotCalled
          => extracted.wrapped = mapped
    /\ ~Missing(raw) /\ extracted.bare # NotCalled
          => extracted.bare = mapDocumentToTemplate(Extracted(raw))
    /\ extracted.wrapped # NotCalled
          => extracted.wrapped = mapDocumentToTemplate(Extracted(Obj([document |-> raw])))

\* a null body has no field to read: the bare body fails where the
\* envelope of null is mapped to the itinerary of the defaults
C18_NullBody ==
    /\ raw = Null /\ extracted.bare # NotCalled =>
          extracted.bare = Thrown("TypeError: Cannot read properties of null (reading 'document')")
    /\ raw = Null /\ extracted.wrapped # NotCalled =>
          /\ DefinedItinerary(extracted.wrapped)
          /\ Prop(extracted.wrapped, "destination") = Str("Destination")
          /\ Prop(extracted.wrapped, "days") = Arr(<<>>)

C18_Witness ==
    /\ extracted.bare # NotCalled /\ extracted.wrapped # NotCalled
    /\ extracted.bare = extracted.wrapped
    /\ extracted.bare.t = "object"
    /\ Prop(raw, "destination") = Str("Paris, France")
    /\ Prop(extracted.wrapped, "destination") = Str("Paris, France")

(***************************************************************************)
(* C19: on the day page that is rendered, the distance indicator follows   *)
(* activity i exactly when the itinerary holds a distance for it that is   *)
(* neither null nor absent and activity i is not the last of its day; a    *)
(* null or absent distance never has an indicator, and neither has the     *)
(* last activity.                                                          *)
(***************************************************************************)
ShownDay ==
    LET first == IF WithParticipants(data) THEN 2 ELSE 1 IN
    Prop(data, "days").v[currentPage - first + 1]

C19_DistanceIndicator ==
    pagesRendered /\ renderCurrentPage.kind = "DayPage" =>
        LET acts == Prop(ShownDay, "activities").v
            shown == indicatorsOf(renderCurrentPage)
        IN  /\ Len(shown) = Len(acts)
            /\ \A i \in 1..Len(acts) :
                 /\ shown[i] <=> (~Missing(Prop(acts[i], "distance_to_next")) /\ i # Len(acts))
                 /\ Missing(Prop(acts[i], "distance_to_next")) => ~shown[i]
            /\ acts # <<>> => ~shown[Len(acts)]

C19_Witness ==
    /\ pagesRendered /\ renderCurrentPage.kind = "DayPage"
    /\ Prop(ShownDay, "date") = Str("Saturday, May 2")
    /\ indicatorsOf(renderCurrentPage) = <<FALSE, TRUE, TRUE, FALSE>>
    /\ Prop(Prop(ShownDay, "activities").v[4], "distance_to_next") = Num(0)

(***************************************************************************)
(* C20 as stated: on every load path loading turns false only in a step of *)
(* the settle timer, after data or error was set, and never in the step    *)
(* that sets them.  It fails on the denied path, where the load effect     *)
(* sets error and clears loading in one step and starts no timer.          *)
(***************************************************************************)
C20_OriginalStep ==
    loading /\ ~loading' =>
        /\ timers' = timers - 1
        /\ data # Null \/ error # Null
        /\ data' = data /\ error' = error

C20_Original == [][C20_OriginalStep]_vars

(***************************************************************************)
(* C20: on the demo path and on the fetch paths, successful or failed,     *)
(* loading turns false only in a step of the settle timer that was started *)
(* by the resolution, after data or error was set and never in the step    *)
(* that sets them; on the denied path loading turns false in the very step *)
(* that sets the error, and no timer is started.                           *)
(***************************************************************************)
C20_Step ==
    /\ loading /\ ~loading' /\ Accepted(request) =>
         /\ timers = 1 /\ timers' = 0
         /\ data # Null \/ error # Null
         /\ data' = data /\ error' = error
    /\ loading /\ ~loading' /\ ~Accepted(request) =>
         /\ timers = 0 /\ timers' = 0
         /\ data = Null /\ data' = Null
         /\ error = Null /\ error' # Null
    /\ Accepted(request) /\ (data' # data \/ error' # error) =>
         /\ loading /\ loading'
         /\ timers' = timers + 1

C20_SettleDelay == [][C20_Step]_vars /\ [](~loading /\ Accepted(request) => timers = 0)

C20_Witness ==
    /\ ~Accepted(request)
    /\ ~loading /\ error # Null /\ data = Null
    /\ timers = 0 /\ fetchState = "none"

(***************************************************************************)
(* C21: in every reachable state with error non-null the error message is  *)
(* rendered and the full-screen loading overlay is not rendered with it,   *)
(* so the message is visible.  It fails in every state with an error: an   *)
(* error is only ever set while data is null, showLoading is true while    *)
(* data is null whatever loading is, and the overlay is stacked above the  *)
(* error box.                                                              *)
(***************************************************************************)
C21_Original == error # Null => errorRendered /\ ~overlayRendered /\ errorVisible

\* what the code does in its place: the message is rendered, the overlay
\* is rendered with it and covers it
C21_ErrorUnderOverlay ==
    error # Null => errorRendered /\ overlayRendered /\ ~errorVisible /\ ~pagesRendered

C21_Witness ==
    /\ error = Str("Error: failed to load itinerary: 404")
    /\ ~loading /\ timers = 0 /\ fetchState = "settled"
    /\ errorRendered /\ overlayRendered

(***************************************************************************)
(* C23: error and data are never both set.  A step that installs an        *)
(* itinerary starts and ends with error null, a step that records an error *)
(* starts and ends with data null, and the error message is never rendered *)
(* together with a page of the itinerary.                                  *)
(***************************************************************************)
C23_Exclusive ==
    /\ ~(error # Null /\ data # Null)
    /\ errorRendered => ~pagesRendered /\ renderCurrentPage = NoElement

C23_Step ==
    /\ data' # data => error = Null /\ error' = Null
    /\ error' # error => data = Null /\ data' = Null

C23_ErrorDataExclusive == []C23_Exclusive /\ [][C23_Step]_vars

C23_Witness ==
    /\ error = Str("TypeError: Failed to fetch")
    /\ data = Null /\ fetchState = "settled" /\ requests # <<>>
    /\ errorRendered /\ ~pagesRendered

(***************************************************************************)
(* C22: given that the hydration and load effects run, that the fetch      *)
(* settles and that timers fire, every mount reaches, and then never       *)
(* leaves, one of two outcomes: pages displayed (overlay not rendered,     *)
(* error null, data present) or failure displayed (error set, no pages).   *)
(* The overlay, once gone, does not come back, and data, once set, is      *)
(* never changed or cleared.                                               *)
(***************************************************************************)
PagesDisplayed == ~overlayRendered /\ error = Null /\ data # Null /\ pagesRendered

FailureDisplayed == error # Null /\ errorRendered /\ ~pagesRendered

C22_Stable ==
    /\ PagesDisplayed => PagesDisplayed'
    /\ FailureDisplayed => FailureDisplayed' /\ error' = error
    /\ ~overlayRendered => ~overlayRendered'
    /\ data # Null => data' = data

C22_Original ==
    /\ <>[](PagesDisplayed \/ FailureDisplayed)
    /\ [][C22_Stable]_vars

\* the tree is unmounted: nothing of App is on the screen, neither the
\* pages nor a message, though an itinerary was installed without an error
Unmounted == crashed /\ ~pagesRendered /\ ~errorRendered /\ ~overlayRendered

\* what the program does keep: the mount ends with the pages, with the
\* failure or with nothing on the screen, and leaves the pages only for
\* nothing
C22_StableOrUnmounted ==
    /\ <>[](PagesDisplayed \/ FailureDisplayed \/ Unmounted)
    /\ [][/\ PagesDisplayed => PagesDisplayed' \/ Unmounted'
          /\ FailureDisplayed => FailureDisplayed' /\ error' = error
          /\ Unmounted => Unmounted'
          /\ data # Null => data' = data]_vars

C22_Witness ==
    /\ Unmounted
    /\ fetchState = "settled" /\ timers = 0
    /\ data # Null /\ error = Null
    /\ nexts > 0 /\ currentPage > 0

====
